---- MODULE Spec2Model ----
(***************************************************************************)
(* depgraph: graph assembly (filterAndDedupe), the diff engine             *)
(* (diffGraphs) and graph persistence (serializeGraph/deserializeGraph).   *)
(*                                                                         *)
(* Spec      one scan: the per-file loop pushes fragment nodes and edges,  *)
(*           filterAndDedupe assembles them, the graph is serialized and   *)
(*           read back.                                                    *)
(* SpecDiff  two assembled snapshots are compared by diffGraphs, in both   *)
(*           directions.                                                   *)
(***************************************************************************)
EXTENDS Integers, Sequences, FiniteSets, TLC

VARIABLES pc, allNodes, allEdges, graph, json, restored,
          before, after, diff, rdiff,
          gitEnv,
          mode, disk, languages, unavailable, files, cursor, warnings, dispatched,
          installed, loader, modules, tasks, counts,
          outcome, source

\* The file set of a scan and the scan loop's position (SpecScan).
scanVars == <<mode, disk, languages, unavailable, files, cursor, warnings, dispatched,
              source>>

\* The packages present, the module state of the parser loader and of the
\* language modules, the callers in flight and the counts of what they did
\* (SpecLoader).
loaderVars == <<installed, loader, modules, tasks, counts>>

vars == <<pc, allNodes, allEdges, graph, json, restored,
          before, after, diff, rdiff, gitEnv, scanVars, loaderVars, outcome>>

(***************************************************************************)
(* Bounds of the model.                                                    *)
(***************************************************************************)
MaxNodes == 3
MaxEdges == 2
DiffMaxNodes == 2
DiffMaxEdges == 1

(***************************************************************************)
(* Value domains.  Names are identifiers as the grammars produce them.     *)
(***************************************************************************)
Names == {"A", "B"}
NodeKinds == {"class", "interface", "protocol", "enum", "type_alias"}
EdgeKinds == {"extends", "implements", "field_type", "method_param",
              "method_return", "import"}
ScanNodeKinds == {"class", "interface"}
ScanEdgeKinds == {"extends", "implements"}
Files == {"a.ts"}
Shas == {"abc123"}
Timestamps == {"2026-01-01T00:00:00.000Z"}

\* JavaScript's undefined, and the absence of an own property.
Undefined == "<undefined>"
Absent == "<absent>"

GraphNode(name, kind, file, line) ==
    [name |-> name, kind |-> kind, file |-> file, line |-> line]

GraphEdge(from, to, kind) == [from |-> from, to |-> to, kind |-> kind]

DependencyGraph(nodes, edges, scannedAt, commitSha) ==
    [nodes |-> nodes, edges |-> edges, scannedAt |-> scannedAt,
     commitSha |-> commitSha]

GraphDiff(addedNodes, removedNodes, addedEdges, removedEdges) ==
    [addedNodes |-> addedNodes, removedNodes |-> removedNodes,
     addedEdges |-> addedEdges, removedEdges |-> removedEdges]

\* Placeholders of the variables that hold no value yet.
NoGraph == DependencyGraph(<<>>, <<>>, "", Absent)
NoDiff == GraphDiff(<<>>, <<>>, <<>>, <<>>)
NoJson == [t |-> "none"]

(***************************************************************************)
(* Identity keys (graph.ts).                                               *)
(***************************************************************************)
\* Mutant: the key also holds the declaration line.
nodeKeyWithLine(node) ==
    node.name \o ":" \o node.kind \o ":" \o ToString(node.line)

\* Mutant: the key is the name alone.
nodeKeyByName(node) == node.name

nodeKey(node) == node.name \o ":" \o node.kind

\* Mutant: the key leaves out the kind.
edgeKeyWithoutKind(edge) == edge.from \o "->" \o edge.to

edgeKey(edge) == edge.from \o "->" \o edge.to \o ":" \o edge.kind

(***************************************************************************)
(* JavaScript Map and Set: insertion-ordered, one entry per key; set() of  *)
(* an existing key replaces the value and keeps the entry's position.      *)
(***************************************************************************)
MapHas(m, k) == \E i \in 1..Len(m) : m[i].key = k

MapSet(m, k, v) ==
    IF MapHas(m, k)
    THEN [i \in 1..Len(m) |->
            IF m[i].key = k THEN [key |-> k, value |-> v] ELSE m[i]]
    ELSE Append(m, [key |-> k, value |-> v])

RECURSIVE MapFromEntries(_, _)
MapFromEntries(entries, m) ==
    IF entries = <<>> THEN m
    ELSE MapFromEntries(Tail(entries),
                        MapSet(m, Head(entries).key, Head(entries).value))

MapValues(m) == [i \in 1..Len(m) |-> m[i].value]

(***************************************************************************)
(* Graph assembly (parse.ts, filterAndDedupe).                             *)
(***************************************************************************)
\* for (const node of allNodes) if (!nodeMap.has(node.name)) nodeMap.set(...)
RECURSIVE nodeMapLoop(_, _)
nodeMapLoop(rest, nodeMap) ==
    IF rest = <<>> THEN nodeMap
    ELSE LET node == Head(rest)
         IN nodeMapLoop(Tail(rest),
                        IF ~MapHas(nodeMap, node.name)
                        THEN MapSet(nodeMap, node.name, node)
                        ELSE nodeMap)

\* Mutant: no deduplication, every fragment node is returned.
dedupeNodesKeepAll(nodesIn) == nodesIn

\* Mutant: nodeMap.set without the has() test, the last occurrence wins.
RECURSIVE nodeMapLoopLastWins(_, _)
nodeMapLoopLastWins(rest, nodeMap) ==
    IF rest = <<>> THEN nodeMap
    ELSE nodeMapLoopLastWins(Tail(rest),
                             MapSet(nodeMap, Head(rest).name, Head(rest)))

dedupeNodesLastWins(nodesIn) == MapValues(nodeMapLoopLastWins(nodesIn, <<>>))

\* Mutant: nodeMap keyed by nodeKey(node) instead of node.name.
RECURSIVE nodeMapLoopByNodeKey(_, _)
nodeMapLoopByNodeKey(rest, nodeMap) ==
    IF rest = <<>> THEN nodeMap
    ELSE LET node == Head(rest)
         IN nodeMapLoopByNodeKey(Tail(rest),
                                 IF ~MapHas(nodeMap, nodeKey(node))
                                 THEN MapSet(nodeMap, nodeKey(node), node)
                                 ELSE nodeMap)

dedupeNodesByNodeKey(nodesIn) == MapValues(nodeMapLoopByNodeKey(nodesIn, <<>>))

dedupeNodes(nodesIn) == MapValues(nodeMapLoop(nodesIn, <<>>))

\* for (const edge of allEdges) { resolve check; self check; seenEdges }
RECURSIVE edgeLoop(_, _, _, _)
edgeLoop(rest, nodeNames, seenEdges, edges) ==
    IF rest = <<>> THEN edges
    ELSE LET edge == Head(rest)
             key == edgeKey(edge)
         IN IF edge.from \notin nodeNames \/ edge.to \notin nodeNames
            THEN edgeLoop(Tail(rest), nodeNames, seenEdges, edges)
            ELSE IF edge.from = edge.to
            THEN edgeLoop(Tail(rest), nodeNames, seenEdges, edges)
            ELSE IF key \notin seenEdges
            THEN edgeLoop(Tail(rest), nodeNames, seenEdges \cup {key},
                          Append(edges, edge))
            ELSE edgeLoop(Tail(rest), nodeNames, seenEdges, edges)

\* Mutant: the self-reference test is missing.
RECURSIVE edgeLoopNoSelfCheck(_, _, _, _)
edgeLoopNoSelfCheck(rest, nodeNames, seenEdges, edges) ==
    IF rest = <<>> THEN edges
    ELSE LET edge == Head(rest)
             key == edgeKey(edge)
         IN IF edge.from \notin nodeNames \/ edge.to \notin nodeNames
            THEN edgeLoopNoSelfCheck(Tail(rest), nodeNames, seenEdges, edges)
            ELSE IF key \notin seenEdges
            THEN edgeLoopNoSelfCheck(Tail(rest), nodeNames, seenEdges \cup {key},
                                     Append(edges, edge))
            ELSE edgeLoopNoSelfCheck(Tail(rest), nodeNames, seenEdges, edges)

filterEdgesNoSelfCheck(edgesIn, nodeNames) ==
    edgeLoopNoSelfCheck(edgesIn, nodeNames, {}, <<>>)

\* Mutant: seenEdges holds from->to, without the kind.
RECURSIVE edgeLoopSeenByEnds(_, _, _, _)
edgeLoopSeenByEnds(rest, nodeNames, seenEdges, edges) ==
    IF rest = <<>> THEN edges
    ELSE LET edge == Head(rest)
             key == edge.from \o "->" \o edge.to
         IN IF edge.from \notin nodeNames \/ edge.to \notin nodeNames
            THEN edgeLoopSeenByEnds(Tail(rest), nodeNames, seenEdges, edges)
            ELSE IF edge.from = edge.to
            THEN edgeLoopSeenByEnds(Tail(rest), nodeNames, seenEdges, edges)
            ELSE IF key \notin seenEdges
            THEN edgeLoopSeenByEnds(Tail(rest), nodeNames, seenEdges \cup {key},
                                    Append(edges, edge))
            ELSE edgeLoopSeenByEnds(Tail(rest), nodeNames, seenEdges, edges)

filterEdgesSeenByEnds(edgesIn, nodeNames) ==
    edgeLoopSeenByEnds(edgesIn, nodeNames, {}, <<>>)

\* Mutant: the test that both ends are declared is missing.
RECURSIVE edgeLoopKeepDangling(_, _, _, _)
edgeLoopKeepDangling(rest, nodeNames, seenEdges, edges) ==
    IF rest = <<>> THEN edges
    ELSE LET edge == Head(rest)
             key == edgeKey(edge)
         IN IF edge.from = edge.to
            THEN edgeLoopKeepDangling(Tail(rest), nodeNames, seenEdges, edges)
            ELSE IF key \notin seenEdges
            THEN edgeLoopKeepDangling(Tail(rest), nodeNames, seenEdges \cup {key},
                                      Append(edges, edge))
            ELSE edgeLoopKeepDangling(Tail(rest), nodeNames, seenEdges, edges)

filterEdgesKeepDangling(edgesIn, nodeNames) ==
    edgeLoopKeepDangling(edgesIn, nodeNames, {}, <<>>)

filterEdges(edgesIn, nodeNames) == edgeLoop(edgesIn, nodeNames, {}, <<>>)

\* headSha is what getCommitSha(dir) returns: a sha, or undefined outside git.
filterAndDedupe(nodesIn, edgesIn, headSha, commitSha, now) ==
    LET nodes == dedupeNodes(nodesIn)
        nodeNames == {nodes[i].name : i \in 1..Len(nodes)}
        edges == filterEdges(edgesIn, nodeNames)
    IN DependencyGraph(nodes, edges, now,
                       IF commitSha # Undefined THEN commitSha ELSE headSha)

(***************************************************************************)
(* Persistence (graph.ts).  A JSON document is modelled by its value tree: *)
(* JSON.stringify writes one member per own property whose value is not    *)
(* undefined; JSON.parse builds an object with one property per member.    *)
(***************************************************************************)
JsUndefined == [t |-> "undefined"]
JsonString(s) == [t |-> "string", v |-> s]
JsonNumber(n) == [t |-> "number", v |-> n]
JsonArray(items) == [t |-> "array", items |-> items]
Prop(key, value) == [key |-> key, value |-> value]

JSONstringifyObject(props) ==
    [t |-> "object",
     members |-> SelectSeq(props, LAMBDA p : p.value.t # "undefined")]

HasMember(doc, key) == \E i \in 1..Len(doc.members) : doc.members[i].key = key

Member(doc, key) ==
    LET i == CHOOSE j \in 1..Len(doc.members) : doc.members[j].key = key
    IN doc.members[i].value

stringifyNode(node) ==
    JSONstringifyObject(<<Prop("name", JsonString(node.name)),
                          Prop("kind", JsonString(node.kind)),
                          Prop("file", JsonString(node.file)),
                          Prop("line", JsonNumber(node.line))>>)

stringifyEdge(edge) ==
    JSONstringifyObject(<<Prop("from", JsonString(edge.from)),
                          Prop("to", JsonString(edge.to)),
                          Prop("kind", JsonString(edge.kind))>>)

\* The own properties of a graph object, in creation order.
graphProps(g) ==
    <<Prop("nodes", JsonArray([i \in 1..Len(g.nodes) |-> stringifyNode(g.nodes[i])])),
      Prop("edges", JsonArray([i \in 1..Len(g.edges) |-> stringifyEdge(g.edges[i])])),
      Prop("scannedAt", JsonString(g.scannedAt))>>
    \o (IF g.commitSha = Absent THEN <<>>
        ELSE IF g.commitSha = Undefined THEN <<Prop("commitSha", JsUndefined)>>
        ELSE <<Prop("commitSha", JsonString(g.commitSha))>>)

serializeGraph(g) == JSONstringifyObject(graphProps(g))

parseNode(doc) ==
    GraphNode(Member(doc, "name").v, Member(doc, "kind").v,
              Member(doc, "file").v, Member(doc, "line").v)

parseEdge(doc) ==
    GraphEdge(Member(doc, "from").v, Member(doc, "to").v, Member(doc, "kind").v)

deserializeGraph(doc) ==
    LET ns == Member(doc, "nodes").items
        es == Member(doc, "edges").items
    IN DependencyGraph([i \in 1..Len(ns) |-> parseNode(ns[i])],
                       [i \in 1..Len(es) |-> parseEdge(es[i])],
                       Member(doc, "scannedAt").v,
                       IF HasMember(doc, "commitSha")
                       THEN Member(doc, "commitSha").v ELSE Absent)

(***************************************************************************)
(* Diff engine (diff.ts).                                                  *)
(***************************************************************************)
nodeEntries(nodes) ==
    [i \in 1..Len(nodes) |-> [key |-> nodeKey(nodes[i]), value |-> nodes[i]]]

edgeEntries(edges) ==
    [i \in 1..Len(edges) |-> [key |-> edgeKey(edges[i]), value |-> edges[i]]]

\* for (const [key, v] of these) if (!those.has(key)) out.push(v)
notIn(these, those) ==
    MapValues(SelectSeq(these, LAMBDA en : ~MapHas(those, en.key)))

\* Mutant: the removed loops test the before maps, so nothing is removed.
diffGraphsRemovedTestsBefore(b, a) ==
    LET beforeNodes == MapFromEntries(nodeEntries(b.nodes), <<>>)
        afterNodes == MapFromEntries(nodeEntries(a.nodes), <<>>)
        beforeEdges == MapFromEntries(edgeEntries(b.edges), <<>>)
        afterEdges == MapFromEntries(edgeEntries(a.edges), <<>>)
    IN GraphDiff(notIn(afterNodes, beforeNodes),
                 notIn(beforeNodes, beforeNodes),
                 notIn(afterEdges, beforeEdges),
                 notIn(beforeEdges, beforeEdges))

\* Mutant: the before maps are keyed by name and by from, the lookups use
\* nodeKey and edgeKey.
diffGraphsBeforeKeyedByName(b, a) ==
    LET beforeNodes ==
            MapFromEntries([i \in 1..Len(b.nodes) |->
                              [key |-> b.nodes[i].name, value |-> b.nodes[i]]], <<>>)
        afterNodes == MapFromEntries(nodeEntries(a.nodes), <<>>)
        beforeEdges ==
            MapFromEntries([i \in 1..Len(b.edges) |->
                              [key |-> b.edges[i].from, value |-> b.edges[i]]], <<>>)
        afterEdges == MapFromEntries(edgeEntries(a.edges), <<>>)
    IN GraphDiff(notIn(afterNodes, beforeNodes),
                 notIn(beforeNodes, afterNodes),
                 notIn(afterEdges, beforeEdges),
                 notIn(beforeEdges, afterEdges))

diffGraphs(b, a) ==
    LET beforeNodes == MapFromEntries(nodeEntries(b.nodes), <<>>)
        afterNodes == MapFromEntries(nodeEntries(a.nodes), <<>>)
        beforeEdges == MapFromEntries(edgeEntries(b.edges), <<>>)
        afterEdges == MapFromEntries(edgeEntries(a.edges), <<>>)
    IN GraphDiff(notIn(afterNodes, beforeNodes),
                 notIn(beforeNodes, afterNodes),
                 notIn(afterEdges, beforeEdges),
                 notIn(beforeEdges, afterEdges))

isDiffEmpty(d) ==
    /\ Len(d.addedNodes) = 0
    /\ Len(d.removedNodes) = 0
    /\ Len(d.addedEdges) = 0
    /\ Len(d.removedEdges) = 0

(***************************************************************************)
(* Spec: one scan.                                                         *)
(***************************************************************************)
\* No revision is read and no file loop runs in this specification.
NoEnv == [t |-> "none"]

\* options.languages: not given, or a list of language ids.
NoLanguages == [given |-> FALSE, ids |-> <<>>]

\* Nothing is loaded and no caller is in flight.
NoTask == [t |-> "none"]

LoaderIdle ==
    /\ installed = NoEnv
    /\ loader = NoEnv
    /\ modules = NoEnv
    /\ tasks = NoTask
    /\ counts = NoEnv

\* No document has been loaded.
NoOutcome == [t |-> "none"]

\* No source file is being extracted.
NoSource == [t |-> "none"]

ScanIdle ==
    /\ outcome = NoOutcome
    /\ source = NoSource
    /\ mode = "none"
    /\ disk = <<>>
    /\ languages = NoLanguages
    /\ unavailable = {}
    /\ files = <<>>
    /\ cursor = 0
    /\ warnings = <<>>
    /\ dispatched = <<>>

Init ==
    /\ pc = "scan"
    /\ allNodes = <<>>
    /\ allEdges = <<>>
    /\ graph = NoGraph
    /\ json = NoJson
    /\ restored = NoGraph
    /\ before = NoGraph
    /\ after = NoGraph
    /\ diff = NoDiff
    /\ rdiff = NoDiff
    /\ gitEnv = NoEnv
    /\ ScanIdle
    /\ LoaderIdle

\* allNodes.push(...nodes): a declaration found by an extractor.  Each
\* declaration of a scan has its own line.
ScanNode ==
    /\ pc = "scan"
    /\ Len(allNodes) < MaxNodes
    /\ \E name \in Names, kind \in ScanNodeKinds, file \in Files :
         allNodes' = Append(allNodes,
                            GraphNode(name, kind, file, Len(allNodes) + 1))
    /\ UNCHANGED <<pc, allEdges, graph, json, restored, before, after, diff, rdiff>>
    /\ UNCHANGED <<gitEnv, scanVars, loaderVars, outcome>>

\* allEdges.push(...edges): a reference found by an extractor; its target
\* need not be a declared type.
ScanEdge ==
    /\ pc = "scan"
    /\ Len(allEdges) < MaxEdges
    /\ \E from \in Names, to \in Names, kind \in ScanEdgeKinds :
         allEdges' = Append(allEdges, GraphEdge(from, to, kind))
    /\ UNCHANGED <<pc, allNodes, graph, json, restored, before, after, diff, rdiff>>
    /\ UNCHANGED <<gitEnv, scanVars, loaderVars, outcome>>

\* return filterAndDedupe(allNodes, allEdges, absDir[, commitSha])
Assemble ==
    /\ pc = "scan"
    /\ \E headSha \in Shas \cup {Undefined}, commitSha \in Shas \cup {Undefined},
          now \in Timestamps :
         graph' = filterAndDedupe(allNodes, allEdges, headSha, commitSha, now)
    /\ pc' = "assembled"
    /\ UNCHANGED <<allNodes, allEdges, json, restored, before, after, diff, rdiff>>
    /\ UNCHANGED <<gitEnv, scanVars, loaderVars, outcome>>

\* scanFromGit outside a repository, or with a ref that does not exist:
\* return { nodes: [], edges: [], scannedAt }
MissingRevision ==
    /\ pc = "scan"
    /\ allNodes = <<>>
    /\ allEdges = <<>>
    /\ \E now \in Timestamps :
         graph' = DependencyGraph(<<>>, <<>>, now, Absent)
    /\ pc' = "assembled"
    /\ UNCHANGED <<allNodes, allEdges, json, restored, before, after, diff, rdiff>>
    /\ UNCHANGED <<gitEnv, scanVars, loaderVars, outcome>>

\* const json = serializeGraph(graph), in the caller of the scan: the scan has
\* returned and its locals allNodes and allEdges are gone.
Serialize ==
    /\ pc = "assembled"
    /\ json' = serializeGraph(graph)
    /\ pc' = "serialized"
    /\ allNodes' = <<>>
    /\ allEdges' = <<>>
    /\ UNCHANGED <<graph, restored, before, after, diff, rdiff>>
    /\ UNCHANGED <<gitEnv, scanVars, loaderVars, outcome>>

Deserialize ==
    /\ pc = "serialized"
    /\ restored' = deserializeGraph(json)
    /\ pc' = "deserialized"
    /\ UNCHANGED <<allNodes, allEdges, graph, json, before, after, diff, rdiff>>
    /\ UNCHANGED <<gitEnv, scanVars, loaderVars, outcome>>

Next ==
    \/ ScanNode
    \/ ScanEdge
    \/ Assemble
    \/ MissingRevision
    \/ Serialize
    \/ Deserialize

Spec == Init /\ [][Next]_vars

(***************************************************************************)
(* SpecDiff: two snapshots, each a graph a scan can return.                *)
(***************************************************************************)
FragmentNodes(n) ==
    UNION {{[i \in 1..k |-> GraphNode(f[i][1], f[i][2], f[i][3], i)] :
              f \in [1..k -> Names \X ScanNodeKinds \X Files]} : k \in 0..n}

FragmentEdges(n) ==
    UNION {{[i \in 1..k |-> GraphEdge(f[i][1], f[i][2], f[i][3])] :
              f \in [1..k -> Names \X Names \X ScanEdgeKinds]} : k \in 0..n}

Snapshots ==
    {filterAndDedupe(ns, es, sha, Undefined, now) :
        ns \in FragmentNodes(DiffMaxNodes), es \in FragmentEdges(DiffMaxEdges),
        sha \in Shas, now \in Timestamps}
    \cup {DependencyGraph(<<>>, <<>>, now, Absent) : now \in Timestamps}

\* What the git commands of scanFromGit meet: whether dir is inside a
\* repository (git rev-parse --show-toplevel) and whether the ref can be
\* listed (git ls-tree -r --name-only ref).
GitEnvs == [inRepo : BOOLEAN, refExists : BOOLEAN]

RevisionMissing(env) == ~env.inRepo \/ ~env.refExists

Returned(g) == [threw |-> FALSE, graph |-> g]
Threw == [threw |-> TRUE, graph |-> NoGraph]

\* scanFromGit with the two git failures left uncaught.
scanFromGitRaises(env, ns, es, commitSha, now) ==
    IF ~env.inRepo THEN Threw
    ELSE IF ~env.refExists THEN Threw
    ELSE Returned(filterAndDedupe(ns, es, Undefined, commitSha, now))

\* scanFromGit: ns and es are what the files of the revision yield.
scanFromGit(env, ns, es, commitSha, now) ==
    IF ~env.inRepo THEN Returned(DependencyGraph(<<>>, <<>>, now, Absent))
    ELSE IF ~env.refExists THEN Returned(DependencyGraph(<<>>, <<>>, now, Absent))
    ELSE Returned(filterAndDedupe(ns, es, Undefined, commitSha, now))

\* const [current, previous] = await Promise.all([scanDirectory(dir),
\* scanFromGit(dir, ref)]): a scan that throws rejects the command.
InitDiff ==
    /\ allNodes = <<>>
    /\ allEdges = <<>>
    /\ graph = NoGraph
    /\ json = NoJson
    /\ restored = NoGraph
    /\ gitEnv \in GitEnvs
    /\ \E ns \in FragmentNodes(DiffMaxNodes), es \in FragmentEdges(DiffMaxEdges),
          sha \in Shas, now \in Timestamps :
         LET previous == scanFromGit(gitEnv, ns, es, sha, now)
         IN  /\ before = previous.graph
             /\ pc = IF previous.threw THEN "failed" ELSE "snapshots"
    /\ after \in Snapshots
    /\ diff = NoDiff
    /\ rdiff = NoDiff
    /\ ScanIdle
    /\ LoaderIdle

\* const diff = diffGraphs(previous, current)
DiffForward ==
    /\ pc = "snapshots"
    /\ diff' = diffGraphs(before, after)
    /\ pc' = "diffed"
    /\ UNCHANGED <<allNodes, allEdges, graph, json, restored, before, after, rdiff>>
    /\ UNCHANGED <<gitEnv, scanVars, loaderVars, outcome>>

\* the same two snapshots compared the other way round
DiffBackward ==
    /\ pc = "diffed"
    /\ rdiff' = diffGraphs(after, before)
    /\ pc' = "rediffed"
    /\ UNCHANGED <<allNodes, allEdges, graph, json, restored, before, after, diff>>
    /\ UNCHANGED <<gitEnv, scanVars, loaderVars, outcome>>

NextDiff ==
    \/ DiffForward
    \/ DiffBackward

SpecDiff == InitDiff /\ [][NextDiff]_vars

(***************************************************************************)
(* SpecScan: the file loop of scanDirectory and of scanFromGit.  Paths,    *)
(* extensions and language ids are sequences of characters, so that        *)
(* endsWith and includes are computed.                                     *)
(***************************************************************************)
ScanMaxFiles == 2

endsWith(str, suffix) ==
    /\ Len(suffix) <= Len(str)
    /\ SubSeq(str, Len(str) - Len(suffix) + 1, Len(str)) = suffix

includes(str, sub) ==
    \E i \in 1..(Len(str) - Len(sub) + 1) : SubSeq(str, i, i + Len(sub) - 1) = sub

RECURSIVE flatMap(_)
flatMap(seqs) == IF seqs = <<>> THEN <<>> ELSE Head(seqs) \o flatMap(Tail(seqs))

some(seq, P(_)) == \E i \in 1..Len(seq) : P(seq[i])

TYPESCRIPT_EXTENSIONS == << <<".", "t", "s">>, <<".", "t", "s", "x">> >>
JAVA_EXTENSIONS == << <<".", "j", "a", "v", "a">> >>
SWIFT_EXTENSIONS == << <<".", "s", "w", "i", "f", "t">> >>
GO_EXTENSIONS == << <<".", "g", "o">> >>

\* The table of parse.ts: it has no entry for Go.
LANGUAGES ==
    << [extensions |-> TYPESCRIPT_EXTENSIONS, parse |-> "parseTypeScript"],
       [extensions |-> JAVA_EXTENSIONS, parse |-> "parseJava"],
       [extensions |-> SWIFT_EXTENSIONS, parse |-> "parseSwift"] >>

NoParser == "null"

RECURSIVE parserFrom(_, _)
parserFrom(table, filePath) ==
    IF table = <<>> THEN NoParser
    ELSE IF some(Head(table).extensions, LAMBDA ext : endsWith(filePath, ext))
         THEN Head(table).parse
         ELSE parserFrom(Tail(table), filePath)

getParserForFile(filePath) == parserFrom(LANGUAGES, filePath)

extensionsOf(table) == flatMap([i \in 1..Len(table) |-> table[i].extensions])

getAllExtensions == extensionsOf(LANGUAGES)

\* scanDirectory with the languages option ignored.
scanExtensionsUnfiltered(opt) == getAllExtensions

\* The extensions scanDirectory globs for.
scanExtensions(opt) ==
    IF opt.given
    THEN extensionsOf(SelectSeq(LANGUAGES, LAMBDA l :
             some(opt.ids, LAMBDA lang :
                 some(l.extensions, LAMBDA ext : includes(ext, lang)))))
    ELSE getAllExtensions

\* The files met by a scan: a path, the type the file declares (which has a
\* field of the other type), and whether reading or parsing it throws.
Paths ==
    { <<"a", ".", "t", "s">>, <<"b", ".", "t", "s", "x">>,
      <<"c", ".", "j", "a", "v", "a">>, <<"d", ".", "s", "w", "i", "f", "t">>,
      <<"e", ".", "g", "o">> }

ScanFiles == [path : Paths, name : Names, bad : BOOLEAN]

\* The listings glob or git ls-tree can produce: no path twice, any order.
Listings ==
    UNION {{l \in [1..k -> ScanFiles] :
               \A i, j \in 1..k : l[i].path = l[j].path => i = j} :
           k \in 0..ScanMaxFiles}

LanguageOptions ==
    { NoLanguages,
      [given |-> TRUE, ids |-> << <<"t", "s">> >>],
      [given |-> TRUE, ids |-> << <<"g", "o">> >>],
      [given |-> TRUE, ids |-> << <<"j", "a", "v", "a">>, <<"s", "w", "i", "f", "t">> >>] }

\* The languages whose grammar neither backend can supply.
Unavailables == {{}, {"parseTypeScript"}}

Other(name) == CHOOSE n \in Names : n # name

DeclKind(parser) ==
    CASE parser = "parseTypeScript" -> "interface"
      [] parser = "parseJava" -> "class"
      [] parser = "parseSwift" -> "protocol"

\* await parser(source, relFile), preceded by the read of the source.
parse(parser, file, unavail) ==
    IF parser \in unavail \/ file.bad
    THEN [threw |-> TRUE, nodes |-> <<>>, edges |-> <<>>]
    ELSE [threw |-> FALSE,
          nodes |-> <<GraphNode(file.name, DeclKind(parser), file.path, 1)>>,
          edges |-> <<GraphEdge(file.name, Other(file.name), "field_type")>>]

\* The loop body without its try/catch: the exception leaves the scan.
scanFileNoCatch(m, unavail, acc, file) ==
    LET parser == getParserForFile(file.path)
    IN  IF parser = NoParser THEN acc
        ELSE LET r == parse(parser, file, unavail)
                 sent == [acc EXCEPT !.dispatched = Append(@, file.path)]
             IN  IF r.threw
                 THEN [sent EXCEPT !.aborted = TRUE]
                 ELSE [sent EXCEPT !.nodes = @ \o r.nodes,
                                   !.edges = @ \o r.edges]

\* The loop body keeping only the edges whose target is already declared.
scanFileResolvingEarly(m, unavail, acc, file) ==
    LET parser == getParserForFile(file.path)
    IN  IF parser = NoParser THEN acc
        ELSE LET r == parse(parser, file, unavail)
                 sent == [acc EXCEPT !.dispatched = Append(@, file.path)]
                 known == {acc.nodes[i].name : i \in 1..Len(acc.nodes)}
             IN  IF r.threw
                 THEN [sent EXCEPT !.warnings =
                           IF m = "directory" THEN Append(@, file.path) ELSE @]
                 ELSE [sent EXCEPT !.nodes = @ \o r.nodes,
                                   !.edges = @ \o SelectSeq(r.edges,
                                                 LAMBDA e : e.to \in known)]

\* The body of for (const file of files): scanDirectory warns about a file
\* that throws, scanFromGit skips it silently.
scanFile(m, unavail, acc, file) ==
    LET parser == getParserForFile(file.path)
    IN  IF parser = NoParser THEN acc
        ELSE LET r == parse(parser, file, unavail)
                 sent == [acc EXCEPT !.dispatched = Append(@, file.path)]
             IN  IF r.threw
                 THEN [sent EXCEPT !.warnings =
                           IF m = "directory" THEN Append(@, file.path) ELSE @]
                 ELSE [sent EXCEPT !.nodes = @ \o r.nodes,
                                   !.edges = @ \o r.edges]

RECURSIVE scanLoop(_, _, _, _)
scanLoop(m, unavail, acc, fs) ==
    IF fs = <<>> \/ acc.aborted THEN acc
    ELSE scanLoop(m, unavail, scanFile(m, unavail, acc, Head(fs)), Tail(fs))

\* const files = await glob(patterns, ...) in scanDirectory; the filter of
\* the output of git ls-tree in scanFromGit.
enumerate(m, opt, listing) ==
    LET extensions == IF m = "directory" THEN scanExtensions(opt)
                      ELSE getAllExtensions
    IN  SelectSeq(listing, LAMBDA f :
            some(extensions, LAMBDA ext : endsWith(f.path, ext)))

EmptyAcc ==
    [nodes |-> <<>>, edges |-> <<>>, warnings |-> <<>>, dispatched |-> <<>>,
     aborted |-> FALSE]

\* A whole scan of a listing, as one value.
scanAll(m, opt, unavail, listing) ==
    scanLoop(m, unavail, EmptyAcc, enumerate(m, opt, listing))

InitScan ==
    /\ pc = "start"
    /\ allNodes = <<>>
    /\ allEdges = <<>>
    /\ graph = NoGraph
    /\ json = NoJson
    /\ restored = NoGraph
    /\ before = NoGraph
    /\ after = NoGraph
    /\ diff = NoDiff
    /\ rdiff = NoDiff
    /\ gitEnv = NoEnv
    /\ mode \in {"directory", "git"}
    /\ disk \in Listings
    /\ languages \in (IF mode = "directory" THEN LanguageOptions
                      ELSE {NoLanguages})
    /\ unavailable \in Unavailables
    /\ files = <<>>
    /\ cursor = 0
    /\ warnings = <<>>
    /\ dispatched = <<>>
    /\ LoaderIdle
    /\ outcome = NoOutcome
    /\ source = NoSource

Enumerate ==
    /\ pc = "start"
    /\ files' = enumerate(mode, languages, disk)
    /\ cursor' = 1
    /\ pc' = "loop"
    /\ UNCHANGED <<allNodes, allEdges, graph, json, restored, before, after,
                   diff, rdiff, gitEnv, mode, disk, languages, unavailable,
                   warnings, dispatched, loaderVars, outcome, source>>

ScanFile ==
    /\ pc = "loop"
    /\ cursor <= Len(files)
    /\ LET acc == [nodes |-> allNodes, edges |-> allEdges,
                   warnings |-> warnings, dispatched |-> dispatched,
                   aborted |-> FALSE]
           r == scanFile(mode, unavailable, acc, files[cursor])
       IN  /\ allNodes' = r.nodes
           /\ allEdges' = r.edges
           /\ warnings' = r.warnings
           /\ dispatched' = r.dispatched
           /\ pc' = IF r.aborted THEN "aborted" ELSE "loop"
    /\ cursor' = cursor + 1
    /\ UNCHANGED <<graph, json, restored, before, after, diff, rdiff, gitEnv,
                   mode, disk, languages, unavailable, files, loaderVars, outcome, source>>

\* return filterAndDedupe(allNodes, allEdges, absDir[, commitSha])
FinishScan ==
    /\ pc = "loop"
    /\ cursor > Len(files)
    /\ \E sha \in Shas, now \in Timestamps :
         graph' = IF mode = "directory"
                  THEN filterAndDedupe(allNodes, allEdges, sha, Undefined, now)
                  ELSE filterAndDedupe(allNodes, allEdges, Undefined, sha, now)
    /\ pc' = "done"
    /\ UNCHANGED <<allNodes, allEdges, json, restored, before, after, diff,
                   rdiff, gitEnv, scanVars, loaderVars, outcome>>

NextScan ==
    \/ Enumerate
    \/ ScanFile
    \/ FinishScan

SpecScan == InitScan /\ [][NextScan]_vars

(***************************************************************************)
(* SpecLoader: the parser loader and two language modules, called by the   *)
(* two scans the diff and hook commands run together.  A caller runs from  *)
(* one await to the next without interruption; at an await the other       *)
(* caller may run.                                                         *)
(***************************************************************************)
LoadMaxCalls == 2

TaskIds == {"scanDirectory", "scanFromGit"}
Langs == {"java", "swift"}
Null == "null"

\* Which packages can be imported: the native runtime, the native grammar
\* of each language, the WASM artifact of each language.
Installations ==
    [native : BOOLEAN, nativeGrammars : SUBSET Langs, wasmGrammars : SUBSET Langs]

IdleTask(calls) ==
    [pc |-> "idle", lang |-> Null, backend |-> Null, ret |-> Null,
     result |-> Null, parser |-> Null, calls |-> calls]

InitLoader ==
    /\ pc = "loader"
    /\ allNodes = <<>>
    /\ allEdges = <<>>
    /\ graph = NoGraph
    /\ json = NoJson
    /\ restored = NoGraph
    /\ before = NoGraph
    /\ after = NoGraph
    /\ diff = NoDiff
    /\ rdiff = NoDiff
    /\ gitEnv = NoEnv
    /\ ScanIdle
    /\ installed \in Installations
    /\ loader = [detectedBackend |-> Null, nativeTreeSitter |-> Null,
                 WasmParser |-> Null, WasmLanguage |-> Null,
                 wasmInitialized |-> FALSE]
    /\ modules = [l \in Langs |-> [parserInstance |-> Null, lang |-> Null]]
    /\ tasks = [t \in TaskIds |-> IdleTask(0)]
    /\ counts = [nativeAttempts |-> 0, backendWrites |-> 0, initCalls |-> 0,
                 parsers |-> [l \in Langs |-> 0],
                 grammars |-> [l \in Langs |-> 0],
                 uninitialized |-> FALSE]

notLoader == <<pc, allNodes, allEdges, graph, json, restored, before, after,
               diff, rdiff, gitEnv, scanVars, outcome>>

\* loadLanguage tries the native grammar whatever backend was detected.
attemptsNativeAlways(backend) == TRUE

\* if (backend === "native") in loadLanguage
attemptsNative(backend) == backend = "native"

\* detectBackend up to its first await, called by task t which goes on at
\* ret with the backend: the cached value, or a new import of the native
\* runtime.
CallDetectBackend(t, ret, task) ==
    IF loader.detectedBackend # Null
    THEN /\ tasks' = [tasks EXCEPT ![t] =
                 [task EXCEPT !.pc = ret, !.backend = loader.detectedBackend]]
         /\ counts' = counts
    ELSE /\ tasks' = [tasks EXCEPT ![t] =
                 [task EXCEPT !.pc = "detect_import", !.ret = ret]]
         /\ counts' = [counts EXCEPT !.nativeAttempts = @ + 1]

\* initWasm up to its first await.
CallInitWasm(t, ret, task) ==
    IF loader.wasmInitialized
    THEN tasks' = [tasks EXCEPT ![t] = [task EXCEPT !.pc = ret]]
    ELSE tasks' = [tasks EXCEPT ![t] =
             [task EXCEPT !.pc = "wasm_import", !.ret = ret]]

\* A scan hands a file to a language module: parseJava or parseSwift calls
\* getParser, which returns the cached parser or starts loading.
GetParser(t) ==
    /\ tasks[t].pc = "idle"
    /\ tasks[t].calls < LoadMaxCalls
    /\ \E l \in Langs :
         IF modules[l].parserInstance # Null
         THEN /\ tasks' = [tasks EXCEPT ![t] = IdleTask(tasks[t].calls + 1)]
              /\ counts' = counts
         ELSE CallDetectBackend(t, "load_backend",
                                [tasks[t] EXCEPT !.lang = l])
    /\ UNCHANGED <<notLoader, installed, loader, modules>>

\* The import of the native runtime settles; detectBackend writes the cache.
DetectImported(t) ==
    /\ tasks[t].pc = "detect_import"
    /\ LET backend == IF installed.native THEN "native" ELSE "wasm"
       IN  /\ loader' = [loader EXCEPT
                   !.detectedBackend = backend,
                   !.nativeTreeSitter = IF installed.native THEN "module" ELSE @]
           /\ tasks' = [tasks EXCEPT ![t] =
                   [@ EXCEPT !.pc = tasks[t].ret, !.ret = Null, !.backend = backend]]
    /\ counts' = [counts EXCEPT !.backendWrites = @ + 1]
    /\ UNCHANGED <<notLoader, installed, modules>>

\* loadLanguage after await detectBackend().
LoadLanguage(t) ==
    /\ tasks[t].pc = "load_backend"
    /\ IF attemptsNative(tasks[t].backend)
       THEN tasks' = [tasks EXCEPT ![t].pc = "load_native"]
       ELSE CallInitWasm(t, "load_wasm", tasks[t])
    /\ UNCHANGED <<notLoader, installed, loader, modules, counts>>

\* The import of the native grammar settles: loadLanguage returns it, or
\* falls back to WASM for this call.
NativeGrammarImported(t) ==
    /\ tasks[t].pc = "load_native"
    /\ IF tasks[t].lang \in installed.nativeGrammars
       THEN /\ tasks' = [tasks EXCEPT ![t] =
                    [@ EXCEPT !.pc = "got_language", !.result = "native"]]
            /\ counts' = [counts EXCEPT !.grammars[tasks[t].lang] = @ + 1]
       ELSE /\ CallInitWasm(t, "load_wasm", tasks[t])
            /\ counts' = counts
    /\ UNCHANGED <<notLoader, installed, loader, modules>>

\* initWasm after await import("web-tree-sitter"): calls WasmParser.init().
WasmImported(t) ==
    /\ tasks[t].pc = "wasm_import"
    /\ loader' = [loader EXCEPT !.WasmParser = "Parser",
                                !.WasmLanguage = "Language"]
    /\ counts' = [counts EXCEPT !.initCalls = @ + 1]
    /\ tasks' = [tasks EXCEPT ![t].pc = "wasm_init"]
    /\ UNCHANGED <<notLoader, installed, modules>>

\* initWasm after await WasmParser.init().
WasmInitDone(t) ==
    /\ tasks[t].pc = "wasm_init"
    /\ loader' = [loader EXCEPT !.wasmInitialized = TRUE]
    /\ tasks' = [tasks EXCEPT ![t] = [@ EXCEPT !.pc = tasks[t].ret, !.ret = Null]]
    /\ UNCHANGED <<notLoader, installed, modules, counts>>

\* loadLanguage after await initWasm(): the artifact is resolved and loaded,
\* or the call throws out of getParser and the file fails.
LoadWasmGrammar(t) ==
    /\ tasks[t].pc = "load_wasm"
    /\ IF tasks[t].lang \in installed.wasmGrammars
       THEN /\ tasks' = [tasks EXCEPT ![t] =
                    [@ EXCEPT !.pc = "got_language", !.result = "wasm"]]
            /\ counts' = [counts EXCEPT
                    !.grammars[tasks[t].lang] = @ + 1,
                    !.uninitialized = @ \/ ~loader.wasmInitialized]
       ELSE /\ tasks' = [tasks EXCEPT ![t] = IdleTask(tasks[t].calls + 1)]
            /\ counts' = counts
    /\ UNCHANGED <<notLoader, installed, loader, modules>>

\* getParser after await loadLanguage(): keeps the grammar and calls
\* createParser(result.backend === "wasm").
GotLanguage(t) ==
    /\ tasks[t].pc = "got_language"
    /\ modules' = [modules EXCEPT ![tasks[t].lang].lang = tasks[t].result]
    /\ CallDetectBackend(t, "create_backend", tasks[t])
    /\ UNCHANGED <<notLoader, installed, loader>>

\* createParser after await detectBackend().
CreateParser(t) ==
    /\ tasks[t].pc = "create_backend"
    /\ IF tasks[t].backend = "native" /\ ~(tasks[t].result = "wasm")
       THEN /\ tasks' = [tasks EXCEPT ![t] =
                    [@ EXCEPT !.pc = "got_parser", !.parser = "native"]]
            /\ counts' = [counts EXCEPT !.parsers[tasks[t].lang] = @ + 1]
       ELSE /\ CallInitWasm(t, "create_wasm", tasks[t])
            /\ counts' = counts
    /\ UNCHANGED <<notLoader, installed, loader, modules>>

\* createParser after await initWasm(): return new WasmParser().
NewWasmParser(t) ==
    /\ tasks[t].pc = "create_wasm"
    /\ tasks' = [tasks EXCEPT ![t] =
            [@ EXCEPT !.pc = "got_parser", !.parser = "wasm"]]
    /\ counts' = [counts EXCEPT
            !.parsers[tasks[t].lang] = @ + 1,
            !.uninitialized = @ \/ ~loader.wasmInitialized]
    /\ UNCHANGED <<notLoader, installed, loader, modules>>

\* getParser after await createParser(): keeps the parser, sets its
\* language and returns it; the file is parsed.
GotParser(t) ==
    /\ tasks[t].pc = "got_parser"
    /\ modules' = [modules EXCEPT
            ![tasks[t].lang].parserInstance = tasks[t].parser]
    /\ tasks' = [tasks EXCEPT ![t] = IdleTask(tasks[t].calls + 1)]
    /\ UNCHANGED <<notLoader, installed, loader, counts>>

NextLoader ==
    \E t \in TaskIds :
        \/ GetParser(t)
        \/ DetectImported(t)
        \/ LoadLanguage(t)
        \/ NativeGrammarImported(t)
        \/ WasmImported(t)
        \/ WasmInitDone(t)
        \/ LoadWasmGrammar(t)
        \/ GotLanguage(t)
        \/ CreateParser(t)
        \/ NewWasmParser(t)
        \/ GotParser(t)

SpecLoader == InitLoader /\ [][NextLoader]_vars

(***************************************************************************)
(* SpecLoad: a persisted graph document, possibly damaged on disk, is      *)
(* loaded with deserializeGraph.  Text that is not JSON is the document    *)
(* NotJson; any other document is the value tree its text denotes.         *)
(***************************************************************************)
NotJson == [t |-> "invalid"]

WithoutMember(doc, key) ==
    [doc EXCEPT !.members = SelectSeq(@, LAMBDA p : p.key # key)]

\* What a damaged file can hold: truncated text, a document that lost a
\* member, a JSON value that is not an object.
Damaged(doc) ==
    { NotJson, WithoutMember(doc, "nodes"), WithoutMember(doc, "edges"),
      JsonArray(<<>>), JsonNumber(0) }

\* JSON.parse(json): a SyntaxError for text that is not JSON, else the
\* value of the text.
JSONparse(doc) ==
    IF doc = NotJson THEN [threw |-> TRUE, value |-> JsUndefined]
    ELSE [threw |-> FALSE, value |-> doc]

\* return JSON.parse(json) as DependencyGraph: the cast checks nothing.
deserializeText(doc) == JSONparse(doc)

InitLoad ==
    /\ pc = "graph"
    /\ allNodes = <<>>
    /\ allEdges = <<>>
    /\ graph \in Snapshots
    /\ json = NoJson
    /\ restored = NoGraph
    /\ before = NoGraph
    /\ after = NoGraph
    /\ diff = NoDiff
    /\ rdiff = NoDiff
    /\ gitEnv = NoEnv
    /\ ScanIdle
    /\ LoaderIdle

notLoad == <<allNodes, allEdges, graph, restored, before, after, diff, rdiff,
             gitEnv, mode, disk, languages, unavailable, files, cursor,
             warnings, dispatched, source, loaderVars>>

\* The graph is written to the baseline file.
Persist ==
    /\ pc = "graph"
    /\ json' = serializeGraph(graph)
    /\ pc' = "persisted"
    /\ UNCHANGED <<notLoad, outcome>>

\* The baseline file is damaged before it is read again.
Damage ==
    /\ pc = "persisted"
    /\ json' \in Damaged(json)
    /\ pc' = "damaged"
    /\ UNCHANGED <<notLoad, outcome>>

\* const baseline = deserializeGraph(text)
Load ==
    /\ pc \in {"persisted", "damaged"}
    /\ outcome' = deserializeText(json)
    /\ pc' = "loaded"
    /\ UNCHANGED <<notLoad, json>>

NextLoad ==
    \/ Persist
    \/ Damage
    \/ Load

SpecLoad == InitLoad /\ [][NextLoad]_vars

(***************************************************************************)
(* SpecOrder: the same fragments assembled twice, the second time with     *)
(* their nodes and edges in another order.                                 *)
(***************************************************************************)
OrderMaxNodes == 2
OrderMaxEdges == 2

\* The edges between two different names.
CrossEdges(n) ==
    {es \in FragmentEdges(n) : \A i \in 1..Len(es) : es[i].from # es[i].to}

\* The one-to-one maps of 1..n onto itself.
Bijections(n) ==
    {p \in [1..n -> 1..n] : \A i, j \in 1..n : p[i] = p[j] => i = j}

Permuted(seq, p) == [i \in 1..Len(seq) |-> seq[p[i]]]

InitOrder ==
    /\ pc = "fragments"
    /\ allNodes \in FragmentNodes(OrderMaxNodes)
    /\ allEdges \in CrossEdges(OrderMaxEdges)
    /\ graph = NoGraph
    /\ json = NoJson
    /\ restored = NoGraph
    /\ before = NoGraph
    /\ after = NoGraph
    /\ diff = NoDiff
    /\ rdiff = NoDiff
    /\ gitEnv = NoEnv
    /\ ScanIdle
    /\ LoaderIdle

\* filterAndDedupe(allNodes, allEdges, absDir)
AssembleInOrder ==
    /\ pc = "fragments"
    /\ \E sha \in Shas, now \in Timestamps :
         graph' = filterAndDedupe(allNodes, allEdges, sha, Undefined, now)
    /\ pc' = "assembled"
    /\ UNCHANGED <<allNodes, allEdges, json, restored, before, after, diff,
                   rdiff, gitEnv, scanVars, loaderVars, outcome>>

\* filterAndDedupe on the same nodes and edges in another order; the result
\* is kept in restored.
AssembleReordered ==
    /\ pc = "assembled"
    /\ \E pn \in Bijections(Len(allNodes)), pe \in Bijections(Len(allEdges)),
          sha \in Shas, now \in Timestamps :
         restored' = filterAndDedupe(Permuted(allNodes, pn),
                                     Permuted(allEdges, pe), sha, Undefined, now)
    /\ pc' = "reassembled"
    /\ UNCHANGED <<allNodes, allEdges, graph, json, before, after, diff,
                   rdiff, gitEnv, scanVars, loaderVars, outcome>>

NextOrder ==
    \/ AssembleInOrder
    \/ AssembleReordered

SpecOrder == InitOrder /\ [][NextOrder]_vars

(***************************************************************************)
(* SpecGrammar: the two scans of the diff and hook commands parse          *)
(* TypeScript files with the one parser of the TypeScript module.  A       *)
(* parser object carries its current grammar; created parsers are          *)
(* numbered.                                                               *)
(***************************************************************************)
GrammarMaxCalls == 2

TsPaths == { <<"a", ".", "t", "s">>, <<"b", ".", "t", "s", "x">> }

IdleTsTask(calls) ==
    [pc |-> "idle", isTsx |-> FALSE, parser |-> 0, used |-> Null,
     wanted |-> Null, calls |-> calls]

InitGrammar ==
    /\ pc = "grammar"
    /\ allNodes = <<>>
    /\ allEdges = <<>>
    /\ graph = NoGraph
    /\ json = NoJson
    /\ restored = NoGraph
    /\ before = NoGraph
    /\ after = NoGraph
    /\ diff = NoDiff
    /\ rdiff = NoDiff
    /\ gitEnv = NoEnv
    /\ ScanIdle
    /\ installed = NoEnv
    /\ loader = NoEnv
    /\ counts = NoEnv
    /\ modules = [parserInstance |-> 0, created |-> 0,
                  language |-> [id \in 1..2 |-> Null]]
    /\ tasks = [t \in TaskIds |-> IdleTsTask(0)]

notGrammar == <<pc, allNodes, allEdges, graph, json, restored, before, after,
                diff, rdiff, gitEnv, scanVars, outcome, installed, loader,
                counts>>

\* parserInstance.setLanguage(isTsx ? tsxLang : tsLang)
setLanguage(m, isTsx) ==
    [m EXCEPT !.language[m.parserInstance] =
         IF isTsx THEN "tsx" ELSE "typescript"]

\* parseTypeScript up to await getParser(isTsx): with a parser at hand
\* getParser sets its language and returns it; without one it starts loading
\* the grammars.
GetTsParser(t) ==
    /\ tasks[t].pc = "idle"
    /\ tasks[t].calls < GrammarMaxCalls
    /\ \E filePath \in TsPaths :
         LET isTsx == endsWith(filePath, <<".", "t", "s", "x">>)
             wanted == IF isTsx THEN "tsx" ELSE "typescript"
         IN  IF modules.parserInstance = 0
             THEN /\ tasks' = [tasks EXCEPT ![t] =
                          [@ EXCEPT !.pc = "loading", !.isTsx = isTsx,
                                    !.wanted = wanted, !.used = Null]]
                  /\ modules' = modules
             ELSE /\ modules' = setLanguage(modules, isTsx)
                  /\ tasks' = [tasks EXCEPT ![t] =
                          [@ EXCEPT !.pc = "await_parser", !.isTsx = isTsx,
                                    !.wanted = wanted, !.used = Null,
                                    !.parser = modules.parserInstance]]
    /\ UNCHANGED notGrammar

\* getParser after its awaits: parserInstance = the new parser, setLanguage,
\* return parserInstance.
TsParserCreated(t) ==
    /\ tasks[t].pc = "loading"
    /\ LET id == modules.created + 1
           made == [modules EXCEPT !.created = id, !.parserInstance = id]
       IN  /\ modules' = setLanguage(made, tasks[t].isTsx)
           /\ tasks' = [tasks EXCEPT ![t] =
                   [@ EXCEPT !.pc = "await_parser", !.parser = id]]
    /\ UNCHANGED notGrammar

\* parseTypeScript after await getParser(isTsx): parser.parse(source) uses
\* the grammar the parser has now.
ParseSource(t) ==
    /\ tasks[t].pc = "await_parser"
    /\ tasks' = [tasks EXCEPT ![t] =
            [@ EXCEPT !.pc = "idle", !.calls = @ + 1,
                      !.used = modules.language[tasks[t].parser]]]
    /\ UNCHANGED <<notGrammar, modules>>

NextGrammar ==
    \E t \in TaskIds :
        \/ GetTsParser(t)
        \/ TsParserCreated(t)
        \/ ParseSource(t)

SpecGrammar == InitGrammar /\ [][NextGrammar]_vars

(***************************************************************************)
(* Extractors.  A syntax tree is what the parser hands to parseSource: each *)
(* node has a type, the field name under which its parent holds it, its     *)
(* text when it is a leaf, whether it is a named node, its start row and    *)
(* its children.                                                            *)
(***************************************************************************)
SyntaxNode(type, field, row, children) ==
    [type |-> type, field |-> field, text |-> "", named |-> TRUE, row |-> row,
     children |-> children]

Leaf(type, field, text) ==
    [type |-> type, field |-> field, text |-> text, named |-> TRUE, row |-> 0,
     children |-> <<>>]

\* An anonymous node: a keyword or a punctuation mark.
Token(text) ==
    [type |-> text, field |-> "", text |-> text, named |-> FALSE, row |-> 0,
     children |-> <<>>]

\* The same node held by its parent under a field name.
As(field, node) == [node EXCEPT !.field = field]

\* The null that childForFieldName and the loops over children return.
NoChild == [type |-> "null"]

RECURSIVE join(_)
join(strs) == IF strs = <<>> THEN "" ELSE Head(strs) \o join(Tail(strs))

\* node.text: the source text the node spans.
RECURSIVE Text(_)
Text(node) ==
    IF node.children = <<>> THEN node.text
    ELSE join([i \in 1..Len(node.children) |-> Text(node.children[i])])

childForFieldName(node, field) ==
    LET held == SelectSeq(node.children, LAMBDA c : c.field = field)
    IN  IF held = <<>> THEN NoChild ELSE Head(held)

findChild(node, type) ==
    LET typed == SelectSeq(node.children, LAMBDA c : c.type = type)
    IN  IF typed = <<>> THEN NoChild ELSE Head(typed)

(***************************************************************************)
(* The Go extractor.                                                        *)
(***************************************************************************)
extractTypeIdentifier(node) ==
    IF node.type = "type_identifier" THEN Text(node)
    ELSE IF /\ node.type = "pointer_type"
            /\ findChild(node, "type_identifier") # NoChild
    THEN Text(findChild(node, "type_identifier"))
    ELSE IF /\ node.type \in {"slice_type", "array_type", "map_type"}
            /\ findChild(node, "type_identifier") # NoChild
    THEN Text(findChild(node, "type_identifier"))
    ELSE IF /\ node.type = "qualified_type"
            /\ childForFieldName(node, "name") # NoChild
    THEN Text(childForFieldName(node, "name"))
    ELSE Null

RECURSIVE extractAllTypeIdentifiers(_)
extractAllTypeIdentifiers(node) ==
    LET id == extractTypeIdentifier(node)
    IN  IF id # Null /\ id # "" THEN <<id>>
        ELSE flatMap([i \in 1..Len(node.children) |->
                          extractAllTypeIdentifiers(node.children[i])])

BUILTIN_TYPES ==
    {"string", "int", "int8", "int16", "int32", "int64",
     "uint", "uint8", "uint16", "uint32", "uint64",
     "float32", "float64", "complex64", "complex128",
     "bool", "byte", "rune", "error", "any",
     "uintptr", "comparable"}

isUserType(name) == name \notin BUILTIN_TYPES

\* The edges that the ids name and isUserType lets through.
userEdges(from, ids, kind) ==
    LET user == SelectSeq(ids, isUserType)
    IN  [i \in 1..Len(user) |-> GraphEdge(from, user[i], kind)]

\* One turn of the loop of extractStruct over the field list.
structFieldEdges(nameText, field) ==
    LET nameNode == childForFieldName(field, "name")
        typeChild == childForFieldName(field, "type")
        id == extractTypeIdentifier(typeChild)
        bare == SelectSeq(field.children, LAMBDA c : c.type = "type_identifier")
    IN  IF field.type # "field_declaration" THEN <<>>
        ELSE IF nameNode = NoChild /\ typeChild # NoChild
        THEN IF id # Null /\ id # "" /\ isUserType(id)
             THEN <<GraphEdge(nameText, id, "extends")>> ELSE <<>>
        ELSE IF nameNode = NoChild /\ typeChild = NoChild
        THEN userEdges(nameText, [i \in 1..Len(bare) |-> Text(bare[i])], "extends")
        ELSE IF nameNode # NoChild /\ typeChild # NoChild
        THEN userEdges(nameText, extractAllTypeIdentifiers(typeChild), "field_type")
        ELSE <<>>

extractStruct(nameText, typeNode, filePath, startRow) ==
    LET named == childForFieldName(typeNode, "fields")
        fieldList == IF named # NoChild THEN named
                     ELSE findChild(typeNode, "field_declaration_list")
    IN  [nodes |-> <<GraphNode(nameText, "class", filePath, startRow + 1)>>,
         edges |-> IF fieldList = NoChild THEN <<>>
                   ELSE flatMap([i \in 1..Len(fieldList.children) |->
                            structFieldEdges(nameText, fieldList.children[i])])]

\* The edges of one parameter of a method.
paramEdges(param, ownerName) ==
    LET paramType == childForFieldName(param, "type")
    IN  IF param.type # "parameter_declaration" \/ paramType = NoChild THEN <<>>
        ELSE userEdges(ownerName, extractAllTypeIdentifiers(paramType),
                       "method_param")

extractMethodEdges(method, ownerName) ==
    LET params == childForFieldName(method, "parameters")
        result == childForFieldName(method, "result")
    IN  (IF params = NoChild THEN <<>>
         ELSE flatMap([i \in 1..Len(params.children) |->
                           paramEdges(params.children[i], ownerName)]))
        \o (IF result = NoChild THEN <<>>
            ELSE userEdges(ownerName, extractAllTypeIdentifiers(result),
                           "method_return"))

\* One turn of the loop of extractInterface over the children of the type.
interfaceChildEdges(nameText, child) ==
    LET bare == SelectSeq(child.children, LAMBDA c : c.type = "type_identifier")
    IN  IF child.type = "constraint_elem"
        THEN userEdges(nameText, [i \in 1..Len(bare) |-> Text(bare[i])], "extends")
        ELSE IF child.type = "method_spec"
        THEN extractMethodEdges(child, nameText)
        ELSE <<>>

extractInterface(nameText, typeNode, filePath, startRow) ==
    [nodes |-> <<GraphNode(nameText, "interface", filePath, startRow + 1)>>,
     edges |-> flatMap([i \in 1..Len(typeNode.children) |->
                   interfaceChildEdges(nameText, typeNode.children[i])])]

getReceiverType(method) ==
    LET lists == SelectSeq(method.children, LAMBDA c : c.type = "parameter_list")
        typed == IF lists = <<>> THEN <<>>
                 ELSE SelectSeq(Head(lists).children,
                          LAMBDA p : /\ p.type = "parameter_declaration"
                                     /\ childForFieldName(p, "type") # NoChild)
    IN  IF typed = <<>> THEN Null
        ELSE extractTypeIdentifier(childForFieldName(Head(typed), "type"))

NoFragment == [nodes |-> <<>>, edges |-> <<>>]

\* What parseSource of the Go extractor adds for one type_spec.
goTypeSpec(spec, filePath) ==
    LET nameNode == childForFieldName(spec, "name")
        typeNode == childForFieldName(spec, "type")
    IN  IF spec.type # "type_spec" \/ nameNode = NoChild \/ typeNode = NoChild
        THEN NoFragment
        ELSE IF typeNode.type = "struct_type"
        THEN extractStruct(Text(nameNode), typeNode, filePath, spec.row)
        ELSE IF typeNode.type = "interface_type"
        THEN extractInterface(Text(nameNode), typeNode, filePath, spec.row)
        ELSE NoFragment

\* What parseSource of the Go extractor adds for one child of the root.
goTopLevel(child, filePath) ==
    IF child.type = "type_declaration"
    THEN LET specs == [j \in 1..Len(child.children) |->
                           goTypeSpec(child.children[j], filePath)]
         IN  [nodes |-> flatMap([j \in 1..Len(specs) |-> specs[j].nodes]),
              edges |-> flatMap([j \in 1..Len(specs) |-> specs[j].edges])]
    ELSE IF child.type = "method_declaration"
    THEN LET receiverType == getReceiverType(child)
         IN  [nodes |-> <<>>,
              edges |-> IF receiverType # Null /\ receiverType # ""
                        THEN extractMethodEdges(child, receiverType) ELSE <<>>]
    ELSE NoFragment

parseSourceGo(root, filePath) ==
    LET parts == [i \in 1..Len(root.children) |->
                      goTopLevel(root.children[i], filePath)]
    IN  [nodes |-> flatMap([i \in 1..Len(parts) |-> parts[i].nodes]),
         edges |-> flatMap([i \in 1..Len(parts) |-> parts[i].edges])]

\* The fragments of the parts of a tree, in the order of the pushes.
gather(parts) ==
    [nodes |-> flatMap([i \in 1..Len(parts) |-> parts[i].nodes]),
     edges |-> flatMap([i \in 1..Len(parts) |-> parts[i].edges])]

\* One edge of the given kind from the name to each type, in order.
edgesTo(from, ids, kind) == [i \in 1..Len(ids) |-> GraphEdge(from, ids[i], kind)]

(***************************************************************************)
(* The Java extractor.                                                      *)
(***************************************************************************)
RECURSIVE extractTypeIdentifiersJava(_)
extractTypeIdentifiersJava(n) ==
    IF n.type = "type_identifier" THEN <<Text(n)>>
    ELSE IF n.type = "scoped_type_identifier"
    THEN IF childForFieldName(n, "name") # NoChild
         THEN <<Text(childForFieldName(n, "name"))>> ELSE <<>>
    ELSE flatMap([i \in 1..Len(n.children) |->
                      extractTypeIdentifiersJava(n.children[i])])

\* The edges of the types under a field of a node, none when it is absent.
fieldEdgesJava(node, field, name, kind) ==
    IF childForFieldName(node, field) = NoChild THEN <<>>
    ELSE edgesTo(name, extractTypeIdentifiersJava(childForFieldName(node, field)),
                 kind)

\* One turn of the loop of extractClass over the parameters of a method.
paramEdgesJava(param, name) ==
    IF param.type # "formal_parameter" THEN <<>>
    ELSE fieldEdgesJava(param, "type", name, "method_param")

\* One turn of the loop of extractClass over the members of the body.
memberEdgesJava(member, name) ==
    IF member.type = "field_declaration"
    THEN fieldEdgesJava(member, "type", name, "field_type")
    ELSE IF member.type \in {"method_declaration", "constructor_declaration"}
    THEN LET params == childForFieldName(member, "parameters")
         IN  fieldEdgesJava(member, "type", name, "method_return")
             \o (IF params = NoChild THEN <<>>
                 ELSE flatMap([j \in 1..Len(params.children) |->
                                   paramEdgesJava(params.children[j], name)]))
    ELSE <<>>

extractClass(node, filePath, kind) ==
    LET nameNode == childForFieldName(node, "name")
        name == Text(nameNode)
        body == childForFieldName(node, "body")
    IN  IF nameNode = NoChild THEN NoFragment
        ELSE [nodes |-> <<GraphNode(name, kind, filePath, node.row + 1)>>,
              edges |->
                  fieldEdgesJava(node, "superclass", name, "extends")
                  \o fieldEdgesJava(node, "interfaces", name, "implements")
                  \o fieldEdgesJava(node, "extends_interfaces", name, "extends")
                  \o (IF body = NoChild THEN <<>>
                      ELSE flatMap([i \in 1..Len(body.children) |->
                                      memberEdgesJava(body.children[i], name)]))]

\* The node of an enum declaration, which has no edges.
enumFragment(node, filePath) ==
    LET nameNode == childForFieldName(node, "name")
    IN  IF nameNode = NoChild THEN NoFragment
        ELSE [nodes |-> <<GraphNode(Text(nameNode), "enum", filePath,
                                    node.row + 1)>>,
              edges |-> <<>>]

RECURSIVE walkJava(_, _)
walkJava(node, filePath) ==
    IF node.type = "class_declaration" THEN extractClass(node, filePath, "class")
    ELSE IF node.type = "interface_declaration"
    THEN extractClass(node, filePath, "interface")
    ELSE IF node.type = "enum_declaration" THEN enumFragment(node, filePath)
    ELSE gather([i \in 1..Len(node.children) |->
                     walkJava(node.children[i], filePath)])

parseSourceJava(root, filePath) == walkJava(root, filePath)

(***************************************************************************)
(* The TypeScript extractor.                                                *)
(***************************************************************************)
RECURSIVE extractTypeIdentifiersTs(_)
extractTypeIdentifiersTs(n) ==
    IF n.type \in {"type_identifier", "identifier"} THEN <<Text(n)>>
    ELSE IF n.type \in {"nested_type_identifier", "member_expression"}
    THEN <<Text(n)>>
    ELSE flatMap([i \in 1..Len(n.children) |->
                      extractTypeIdentifiersTs(n.children[i])])

\* The edges of the types under a field of a node, none when it is absent.
fieldEdgesTs(node, field, name, kind) ==
    IF childForFieldName(node, field) = NoChild THEN <<>>
    ELSE edgesTo(name, extractTypeIdentifiersTs(childForFieldName(node, field)),
                 kind)

\* One turn of the loop over the clauses of a class_heritage.
clauseEdgesTs(clause, name) ==
    IF clause.type = "extends_clause"
    THEN edgesTo(name, extractTypeIdentifiersTs(clause), "extends")
    ELSE IF clause.type = "implements_clause"
    THEN edgesTo(name, extractTypeIdentifiersTs(clause), "implements")
    ELSE <<>>

\* One turn of the loop of extractFromClassOrInterface over the children.
heritageEdgesTs(child, name) ==
    IF child.type = "class_heritage"
    THEN flatMap([j \in 1..Len(child.children) |->
                      clauseEdgesTs(child.children[j], name)])
    ELSE IF child.type \in {"extends_clause", "extends_type_clause"}
    THEN edgesTo(name, extractTypeIdentifiersTs(child), "extends")
    ELSE IF child.type = "implements_clause"
    THEN edgesTo(name, extractTypeIdentifiersTs(child), "implements")
    ELSE <<>>

\* One turn of the loop of extractBodyMembers over the members.
memberEdgesTs(member, ownerName) ==
    IF member.type \in {"public_field_definition", "property_definition",
                        "field_definition", "property_signature"}
    THEN fieldEdgesTs(member, "type", ownerName, "field_type")
    ELSE IF member.type \in {"method_definition", "method_signature"}
    THEN LET params == childForFieldName(member, "parameters")
         IN  (IF params = NoChild THEN <<>>
              ELSE flatMap([j \in 1..Len(params.children) |->
                       fieldEdgesTs(params.children[j], "type", ownerName,
                                    "method_param")]))
             \o fieldEdgesTs(member, "return_type", ownerName, "method_return")
    ELSE <<>>

extractBodyMembersTs(body, ownerName) ==
    flatMap([i \in 1..Len(body.children) |->
                 memberEdgesTs(body.children[i], ownerName)])

extractFromClassOrInterface(node, filePath, kind) ==
    LET nameNode == childForFieldName(node, "name")
        name == Text(nameNode)
        body == childForFieldName(node, "body")
    IN  IF nameNode = NoChild THEN NoFragment
        ELSE [nodes |-> <<GraphNode(name, kind, filePath, node.row + 1)>>,
              edges |->
                  flatMap([i \in 1..Len(node.children) |->
                               heritageEdgesTs(node.children[i], name)])
                  \o (IF body = NoChild THEN <<>>
                      ELSE extractBodyMembersTs(body, name))]

\* The type_alias_declaration case of parseSource.
typeAliasFragment(node, filePath) ==
    LET nameNode == childForFieldName(node, "name")
        name == Text(nameNode)
    IN  IF nameNode = NoChild THEN NoFragment
        ELSE [nodes |-> <<GraphNode(name, "type_alias", filePath, node.row + 1)>>,
              edges |-> fieldEdgesTs(node, "value", name, "extends")]

RECURSIVE walkTs(_, _)
walkTs(node, filePath) ==
    IF node.type \in {"class_declaration", "abstract_class_declaration"}
    THEN extractFromClassOrInterface(node, filePath, "class")
    ELSE IF node.type = "interface_declaration"
    THEN extractFromClassOrInterface(node, filePath, "interface")
    ELSE IF node.type = "type_alias_declaration"
    THEN typeAliasFragment(node, filePath)
    ELSE IF node.type = "enum_declaration" THEN enumFragment(node, filePath)
    ELSE gather([i \in 1..Len(node.children) |->
                     walkTs(node.children[i], filePath)])

parseSourceTs(root, filePath) == walkTs(root, filePath)

(***************************************************************************)
(* The Swift extractor.                                                     *)
(***************************************************************************)
RECURSIVE extractTypeIdentifiersSwift(_)
extractTypeIdentifiersSwift(n) ==
    IF n.type \in {"user_type", "type_identifier"}
    THEN LET nameChild == childForFieldName(n, "name")
             first == findChild(n, "type_identifier")
             arguments == SelectSeq(n.children,
                                    LAMBDA c : c.type = "type_arguments")
         IN  (IF nameChild # NoChild THEN <<Text(nameChild)>>
              ELSE IF n.type = "type_identifier" THEN <<Text(n)>>
              ELSE IF first # NoChild THEN <<Text(first)>>
              ELSE <<>>)
             \o flatMap([i \in 1..Len(arguments) |->
                             flatMap([j \in 1..Len(arguments[i].children) |->
                                 extractTypeIdentifiersSwift(
                                     arguments[i].children[j])])])
    ELSE flatMap([i \in 1..Len(n.children) |->
                      extractTypeIdentifiersSwift(n.children[i])])

\* The edges of the types under a field of a node, none when it is absent.
fieldEdgesSwift(node, field, name, kind) ==
    IF childForFieldName(node, field) = NoChild THEN <<>>
    ELSE edgesTo(name,
                 extractTypeIdentifiersSwift(childForFieldName(node, field)),
                 kind)

\* The edges of the inheritance clauses among the children of a declaration.
inheritanceEdges(node, name, kind) ==
    LET clauses == SelectSeq(node.children,
                       LAMBDA c : c.type \in {"type_inheritance_clause",
                                              "inheritance_specifier"})
    IN  flatMap([i \in 1..Len(clauses) |->
                     edgesTo(name, extractTypeIdentifiersSwift(clauses[i]), kind)])

\* One turn of the loop of extractBodyMembers over the members.
memberEdgesSwift(member, ownerName) ==
    IF member.type \in {"property_declaration", "variable_declaration"}
    THEN LET bindings == SelectSeq(member.children,
                                   LAMBDA c : c.type = "pattern_binding")
         IN  fieldEdgesSwift(member, "type", ownerName, "field_type")
             \o flatMap([j \in 1..Len(bindings) |->
                    fieldEdgesSwift(bindings[j], "type", ownerName, "field_type")])
    ELSE IF member.type = "function_declaration"
    THEN LET params == childForFieldName(member, "parameters")
         IN  fieldEdgesSwift(member, "return_type", ownerName, "method_return")
             \o (IF params = NoChild THEN <<>>
                 ELSE flatMap([j \in 1..Len(params.children) |->
                          fieldEdgesSwift(params.children[j], "type", ownerName,
                                          "method_param")]))
    ELSE <<>>

extractBodyMembersSwift(body, ownerName) ==
    flatMap([i \in 1..Len(body.children) |->
                 memberEdgesSwift(body.children[i], ownerName)])

extractDeclaration(node, filePath, kind) ==
    LET nameNode == childForFieldName(node, "name")
        name == Text(nameNode)
        body == childForFieldName(node, "body")
    IN  IF nameNode = NoChild THEN NoFragment
        ELSE [nodes |-> <<GraphNode(name, kind, filePath, node.row + 1)>>,
              edges |->
                  inheritanceEdges(node, name,
                      IF kind = "protocol" THEN "extends" ELSE "implements")
                  \o (IF body = NoChild THEN <<>>
                      ELSE extractBodyMembersSwift(body, name))]

\* The extension_declaration case of parseSource, were it to go through
\* extractDeclaration as the class_declaration case does.
extensionAsDeclaration(node, filePath) == extractDeclaration(node, filePath, "class")

\* The extension_declaration case of parseSource.
extensionFragment(node, filePath) ==
    LET nameNode == childForFieldName(node, "name")
    IN  IF nameNode = NoChild THEN NoFragment
        ELSE [nodes |-> <<>>,
              edges |-> inheritanceEdges(node, Text(nameNode), "implements")]

\* The class_declaration case of parseSource.
classFragment(node, filePath) ==
    IF \E i \in 1..Len(node.children) :
           ~node.children[i].named /\ Text(node.children[i]) = "enum"
    THEN enumFragment(node, filePath)
    ELSE extractDeclaration(node, filePath, "class")

RECURSIVE walkSwift(_, _)
walkSwift(node, filePath) ==
    IF node.type = "class_declaration" THEN classFragment(node, filePath)
    ELSE IF node.type = "protocol_declaration"
    THEN extractDeclaration(node, filePath, "protocol")
    ELSE IF node.type = "enum_declaration" THEN enumFragment(node, filePath)
    ELSE IF node.type = "extension_declaration"
    THEN extensionFragment(node, filePath)
    ELSE gather([i \in 1..Len(node.children) |->
                     walkSwift(node.children[i], filePath)])

parseSourceSwift(root, filePath) == walkSwift(root, filePath)

(***************************************************************************)
(* Source files, as the trees that the extractors read.  Each tree is built *)
(* from the node types and the field names that its extractor asks for.     *)
(***************************************************************************)
\* The types that a source file of the model declares or imports.
UserTypes == {"User", "Repo"}

TypeId(name) == Leaf("type_identifier", "", name)

Block(type, field, members) ==
    SyntaxNode(type, field, 0, <<Token("{")>> \o members \o <<Token("}")>>)

\* Go: *T, []T, [4]T, map[K]V and pkg.T.
PointerType(t) == SyntaxNode("pointer_type", "", 0, <<Token("*"), t>>)

SliceType(t) ==
    SyntaxNode("slice_type", "", 0, <<Token("["), Token("]"), As("element", t)>>)

ArrayType(t) ==
    SyntaxNode("array_type", "", 0,
               <<Token("["), Leaf("int_literal", "length", "4"), Token("]"),
                 As("element", t)>>)

MapType(k, v) ==
    SyntaxNode("map_type", "", 0,
               <<Token("map"), Token("["), As("key", k), Token("]"),
                 As("value", v)>>)

QualifiedType(pkg, name) ==
    SyntaxNode("qualified_type", "", 0,
               <<Leaf("package_identifier", "package", pkg), Token("."),
                 As("name", TypeId(name))>>)

GoNames == UserTypes \cup {"string"}

GoSimpleTypes == {TypeId(n) : n \in GoNames}

GoTypes ==
    GoSimpleTypes
    \cup {PointerType(t) : t \in GoSimpleTypes}
    \cup {SliceType(t) : t \in GoSimpleTypes}
    \cup {ArrayType(t) : t \in GoSimpleTypes}
    \cup {SliceType(PointerType(t)) : t \in GoSimpleTypes}
    \cup {MapType(k, v) : k \in GoSimpleTypes, v \in GoSimpleTypes}
    \cup {QualifiedType("pkg", n) : n \in UserTypes}

\* type <name> <type> on the given row.
GoTypeDeclaration(name, row, type) ==
    SyntaxNode("type_declaration", "", row,
        <<Token("type"),
          SyntaxNode("type_spec", "", row,
                     <<As("name", TypeId(name)), As("type", type)>>)>>)

\* type <name> = <type>
GoTypeAlias(name, row, type) ==
    SyntaxNode("type_declaration", "", row,
        <<Token("type"),
          SyntaxNode("type_alias", "", row,
                     <<As("name", TypeId(name)), Token("="), As("type", type)>>)>>)

GoStructType(fields) ==
    SyntaxNode("struct_type", "", 0,
               <<Token("struct"), Block("field_declaration_list", "", fields)>>)

GoField(name, type) ==
    SyntaxNode("field_declaration", "", 0,
               <<Leaf("field_identifier", "name", name), As("type", type)>>)

GoEmbedded(type) == SyntaxNode("field_declaration", "", 0, <<As("type", type)>>)

GoEmbeddedPointer(name) ==
    SyntaxNode("field_declaration", "", 0, <<Token("*"), TypeId(name)>>)

GoParameters(field, types) ==
    SyntaxNode("parameter_list", field, 0,
        <<Token("(")>>
        \o [i \in 1..Len(types) |->
               SyntaxNode("parameter_declaration", "", 0,
                          <<Leaf("identifier", "name", "p"), As("type", types[i])>>)]
        \o <<Token(")")>>)

GoMethodSpec(param, result) ==
    SyntaxNode("method_spec", "", 0,
               <<Leaf("field_identifier", "name", "find"),
                 GoParameters("parameters", <<param>>), As("result", result)>>)

GoInterfaceType(members) ==
    SyntaxNode("interface_type", "", 0,
               <<Token("interface"), Token("{")>> \o members \o <<Token("}")>>)

GoConstraint(name) == SyntaxNode("constraint_elem", "", 0, <<TypeId(name)>>)

\* func (s <receiver>) find(p <param>) <result> {}
GoMethodDeclaration(receiver, param, result) ==
    SyntaxNode("method_declaration", "", 2,
               <<Token("func"), GoParameters("receiver", <<receiver>>),
                 Leaf("field_identifier", "name", "find"),
                 GoParameters("parameters", <<param>>), As("result", result),
                 Block("block", "body", <<>>)>>)

\* func f() { <declaration> }
GoFunction(declaration) ==
    SyntaxNode("function_declaration", "", 0,
               <<Token("func"), Leaf("identifier", "name", "f"),
                 GoParameters("parameters", <<>>),
                 Block("block", "body", <<declaration>>)>>)

SourceFile(language, path, declarations) ==
    [language |-> language, path |-> path,
     tree |-> SyntaxNode("source_file", "", 0, declarations)]

GoSources ==
    {SourceFile("go", "e.go", <<GoTypeDeclaration("App", 0, GoStructType(<<fd>>))>>) :
         fd \in {GoField("f", t) : t \in GoTypes}
                \cup {GoEmbedded(t) : t \in GoSimpleTypes}
                \cup {GoEmbedded(QualifiedType("pkg", "User")),
                      GoEmbeddedPointer("User")}}
    \cup {SourceFile("go", "e.go",
                     <<GoTypeDeclaration("App", 0, GoInterfaceType(<<m>>))>>) :
              m \in {GoMethodSpec(TypeId("string"), MapType(TypeId("User"), TypeId("Repo"))),
                     GoMethodSpec(SliceType(TypeId("User")), PointerType(TypeId("Repo"))),
                     GoConstraint("Repo")}}
    \cup {SourceFile("go", "e.go",
                     <<GoTypeDeclaration("App", 0, GoStructType(<<>>)),
                       GoMethodDeclaration(r, p, TypeId("string"))>>) :
              r \in {TypeId("App"), PointerType(TypeId("App"))},
              p \in {PointerType(TypeId("User")),
                     MapType(TypeId("User"), TypeId("Repo"))}}
    \cup {SourceFile("go", "e.go", <<d>>) :
              d \in {GoTypeAlias("Id", 0, TypeId("User")),
                     GoTypeDeclaration("Id", 0, TypeId("string")),
                     GoFunction(GoTypeDeclaration("Local", 1, GoStructType(<<>>)))}}

\* Java: pkg.T and T<argument>.
ScopedType(pkg, name) ==
    SyntaxNode("scoped_type_identifier", "", 0,
               <<Leaf("type_identifier", "scope", pkg), Token("."),
                 As("name", TypeId(name))>>)

GenericType(name, argument) ==
    SyntaxNode("generic_type", "", 0,
               <<TypeId(name),
                 SyntaxNode("type_arguments", "", 0,
                            <<Token("<"), argument, Token(">")>>)>>)

JavaTypes ==
    {TypeId("User"), TypeId("String"), Leaf("integral_type", "", "int"),
     ScopedType("pkg", "User"), GenericType("List", TypeId("Repo")),
     GenericType("List", ScopedType("pkg", "Repo"))}

\* <keyword> <name> <heritage> { <members> } on the given row.
JavaDeclaration(type, keyword, name, row, heritage, members) ==
    SyntaxNode(type, "", row,
               <<Token(keyword), Leaf("identifier", "name", name)>> \o heritage
               \o <<Block(type \o "_body", "body", members)>>)

JavaClass(name, row, heritage, members) ==
    JavaDeclaration("class_declaration", "class", name, row, heritage, members)

JavaField(type) ==
    SyntaxNode("field_declaration", "", 0,
               <<As("type", type),
                 SyntaxNode("variable_declarator", "declarator", 0,
                            <<Leaf("identifier", "name", "f")>>),
                 Token(";")>>)

JavaMethod(result, param) ==
    SyntaxNode("method_declaration", "", 0,
               <<As("type", result), Leaf("identifier", "name", "find"),
                 SyntaxNode("formal_parameters", "parameters", 0,
                     <<Token("("),
                       SyntaxNode("formal_parameter", "", 0,
                           <<As("type", param), Leaf("identifier", "name", "p")>>),
                       Token(")")>>),
                 Block("block", "body", <<>>)>>)

JavaSources ==
    {SourceFile("java", "c.java", <<JavaClass("App", 0, <<>>, <<m>>)>>) :
         m \in {JavaField(t) : t \in JavaTypes}
               \cup {JavaMethod(TypeId("User"), ScopedType("pkg", "Repo")),
                     JavaClass("Inner", 1, <<>>, <<>>),
                     JavaDeclaration("enum_declaration", "enum", "Inner", 1,
                                     <<>>, <<>>)}}
    \cup {SourceFile("java", "c.java", <<d>>) :
              d \in {JavaClass("App", 0,
                         <<SyntaxNode("superclass", "superclass", 0,
                               <<Token("extends"), ScopedType("pkg", "User")>>)>>,
                         <<>>),
                     JavaClass("App", 0,
                         <<SyntaxNode("super_interfaces", "interfaces", 0,
                               <<Token("implements"), TypeId("Repo")>>)>>,
                         <<>>),
                     JavaDeclaration("interface_declaration", "interface", "App",
                                     0, <<>>, <<>>),
                     JavaDeclaration("enum_declaration", "enum", "App", 0,
                                     <<>>, <<>>)}}

\* TypeScript: Outer.Inner, T<argument> and the predefined types.
NestedType(outer, name) ==
    SyntaxNode("nested_type_identifier", "", 0,
               <<Leaf("identifier", "module", outer), Token("."),
                 As("name", TypeId(name))>>)

TsTypes ==
    {TypeId("User"), TypeId("Date"), Leaf("predefined_type", "", "string"),
     NestedType("Outer", "User"), GenericType("Array", TypeId("Repo")),
     GenericType("Array", NestedType("Outer", "Repo"))}

TypeAnnotation(field, type) ==
    SyntaxNode("type_annotation", field, 0, <<Token(":"), type>>)

TsDeclaration(type, keyword, name, row, heritage, members) ==
    SyntaxNode(type, "", row,
               <<Token(keyword), As("name", TypeId(name))>> \o heritage
               \o <<Block("class_body", "body", members)>>)

TsClass(name, row, heritage, members) ==
    TsDeclaration("class_declaration", "class", name, row, heritage, members)

TsField(type) ==
    SyntaxNode("public_field_definition", "", 0,
               <<Leaf("property_identifier", "name", "f"),
                 TypeAnnotation("type", type)>>)

\* find(p: <param>): <result> { <statements> }
TsMethod(param, result, statements) ==
    SyntaxNode("method_definition", "", 0,
               <<Leaf("property_identifier", "name", "find"),
                 SyntaxNode("formal_parameters", "parameters", 0,
                     <<Token("("),
                       SyntaxNode("required_parameter", "", 0,
                           <<Leaf("identifier", "pattern", "p"),
                             TypeAnnotation("type", param)>>),
                       Token(")")>>),
                 TypeAnnotation("return_type", result),
                 Block("statement_block", "body", statements)>>)

TsTypeAlias(name, row, value) ==
    SyntaxNode("type_alias_declaration", "", row,
               <<Token("type"), As("name", TypeId(name)), Token("="),
                 As("value", value)>>)

TsSources ==
    {SourceFile("typescript", "a.ts", <<TsClass("App", 0, <<>>, <<m>>)>>) :
         m \in {TsField(t) : t \in TsTypes}
               \cup {TsMethod(TypeId("User"), NestedType("Outer", "Repo"), <<>>),
                     TsMethod(TypeId("User"), TypeId("Repo"),
                              <<TsClass("Inner", 1, <<>>, <<>>)>>)}}
    \cup {SourceFile("typescript", "a.ts", <<d>>) :
              d \in {TsClass("App", 0,
                         <<SyntaxNode("class_heritage", "", 0,
                               <<SyntaxNode("extends_clause", "", 0,
                                     <<Token("extends"),
                                       Leaf("identifier", "value", "User")>>)>>)>>,
                         <<>>),
                     TsDeclaration("interface_declaration", "interface", "App", 0,
                         <<SyntaxNode("extends_type_clause", "", 0,
                               <<Token("extends"), NestedType("Outer", "User")>>)>>,
                         <<>>),
                     SyntaxNode("export_statement", "", 0,
                                <<Token("export"), TsClass("App", 0, <<>>, <<>>)>>),
                     SyntaxNode("enum_declaration", "", 0,
                                <<Token("enum"), Leaf("identifier", "name", "App"),
                                  Block("enum_body", "body", <<>>)>>)}
                    \cup {TsTypeAlias("Id", 0, t) : t \in TsTypes}}

\* Swift: T, Outer.T and T<argument>.
UserType(parts) == SyntaxNode("user_type", "", 0, parts)

SwiftSimple(name) == UserType(<<TypeId(name)>>)

SwiftTypes ==
    {SwiftSimple("User"), SwiftSimple("Int"),
     UserType(<<TypeId("Outer"), Token("."), TypeId("User")>>),
     UserType(<<TypeId("Array"),
                SyntaxNode("type_arguments", "", 0,
                           <<Token("<"), SwiftSimple("Repo"), Token(">")>>)>>),
     UserType(<<TypeId("Array"),
                SyntaxNode("type_arguments", "", 0,
                           <<Token("<"), SwiftSimple("Int"), Token(">")>>)>>)}

Inheritance(type) ==
    SyntaxNode("inheritance_specifier", "", 0, <<As("inherits_from", type)>>)

\* <keyword> <name>: <conformances> { <members> } on the given row.
SwiftDeclaration(type, keyword, name, row, conformances, members) ==
    SyntaxNode(type, "", row,
               <<Token(keyword), As("name", name)>>
               \o (IF conformances = <<>> THEN <<>> ELSE <<Token(":")>>)
               \o [i \in 1..Len(conformances) |-> Inheritance(conformances[i])]
               \o <<Block("class_body", "body", members)>>)

SwiftClass(name, row, conformances, members) ==
    SwiftDeclaration("class_declaration", "class", TypeId(name), row,
                     conformances, members)

SwiftExtension(name, row, conformances) ==
    SwiftDeclaration("extension_declaration", "extension", SwiftSimple(name), row,
                     conformances, <<>>)

SwiftProperty(type) ==
    SyntaxNode("property_declaration", "", 0,
               <<Token("var"), Leaf("simple_identifier", "name", "f"),
                 TypeAnnotation("type", type)>>)

SwiftFunction(param, result) ==
    SyntaxNode("function_declaration", "", 0,
               <<Token("func"), Leaf("simple_identifier", "name", "find"),
                 SyntaxNode("parameters", "parameters", 0,
                     <<SyntaxNode("parameter", "", 0,
                           <<Leaf("simple_identifier", "name", "p"), Token(":"),
                             As("type", param)>>)>>),
                 As("return_type", result), Block("function_body", "body", <<>>)>>)

\* The conformances that an extension of the model adds.
Conformances ==
    {<<>>, <<SwiftSimple("Repo")>>, <<SwiftSimple("Repo"), SwiftSimple("Codable")>>}

SwiftSources ==
    {SourceFile("swift", "d.swift", <<SwiftClass("App", 0, <<>>, <<m>>)>>) :
         m \in {SwiftProperty(t) : t \in SwiftTypes}
               \cup {SwiftFunction(SwiftSimple("User"), SwiftSimple("Int")),
                     SwiftClass("Inner", 1, <<>>, <<>>)}}
    \cup {SourceFile("swift", "d.swift", <<d>>) :
              d \in {SwiftClass("App", 0, <<t>>, <<>>) :
                         t \in SwiftTypes \ {SwiftSimple("Int")}}
                    \cup {SwiftDeclaration("class_declaration", "enum",
                                           TypeId("App"), 0, <<>>, <<>>),
                          SwiftDeclaration("class_declaration", "struct",
                                           TypeId("App"), 0, <<>>, <<>>),
                          SwiftDeclaration("enum_declaration", "enum",
                                           TypeId("App"), 0, <<>>, <<>>),
                          SwiftDeclaration("protocol_declaration", "protocol",
                                           TypeId("App"), 0,
                                           <<SwiftSimple("Repo")>>, <<>>)}}
    \cup {SourceFile("swift", "d.swift",
                     <<SwiftClass("User", 0, <<>>, <<>>),
                       SwiftExtension("User", 1, cs)>>) : cs \in Conformances}
    \cup {SourceFile("swift", "d.swift", <<SwiftExtension("User", 0, cs)>>) :
              cs \in Conformances}

Sources == GoSources \cup JavaSources \cup TsSources \cup SwiftSources

(***************************************************************************)
(* The specification of the extractors: a source file is parsed into its    *)
(* tree and the extractor of its language gives the fragment of the file.   *)
(***************************************************************************)
InitExtract ==
    /\ pc = "tree"
    /\ allNodes = <<>>
    /\ allEdges = <<>>
    /\ graph = NoGraph
    /\ json = NoJson
    /\ restored = NoGraph
    /\ before = NoGraph
    /\ after = NoGraph
    /\ diff = NoDiff
    /\ rdiff = NoDiff
    /\ gitEnv = NoEnv
    /\ mode = "none"
    /\ disk = <<>>
    /\ languages = NoLanguages
    /\ unavailable = {}
    /\ files = <<>>
    /\ cursor = 0
    /\ warnings = <<>>
    /\ dispatched = <<>>
    /\ LoaderIdle
    /\ outcome = NoOutcome
    /\ source \in Sources

notExtract ==
    <<graph, json, restored, before, after, diff, rdiff, gitEnv, mode, disk,
      languages, unavailable, files, cursor, warnings, dispatched, source,
      loaderVars, outcome>>

ParseGo ==
    /\ pc = "tree"
    /\ source.language = "go"
    /\ LET fragment == parseSourceGo(source.tree, source.path)
       IN  allNodes' = fragment.nodes /\ allEdges' = fragment.edges
    /\ pc' = "extracted"
    /\ UNCHANGED notExtract

ParseJava ==
    /\ pc = "tree"
    /\ source.language = "java"
    /\ LET fragment == parseSourceJava(source.tree, source.path)
       IN  allNodes' = fragment.nodes /\ allEdges' = fragment.edges
    /\ pc' = "extracted"
    /\ UNCHANGED notExtract

ParseSwift ==
    /\ pc = "tree"
    /\ source.language = "swift"
    /\ LET fragment == parseSourceSwift(source.tree, source.path)
       IN  allNodes' = fragment.nodes /\ allEdges' = fragment.edges
    /\ pc' = "extracted"
    /\ UNCHANGED notExtract

ParseTypeScript ==
    /\ pc = "tree"
    /\ source.language = "typescript"
    /\ LET fragment == parseSourceTs(source.tree, source.path)
       IN  allNodes' = fragment.nodes /\ allEdges' = fragment.edges
    /\ pc' = "extracted"
    /\ UNCHANGED notExtract

NextExtract == ParseGo \/ ParseJava \/ ParseSwift \/ ParseTypeScript

SpecExtract == InitExtract /\ [][NextExtract]_vars

(***************************************************************************)
(* Helpers of the properties.                                              *)
(***************************************************************************)
\* The elements of seq at the indices in I, in order.
RECURSIVE KeepFrom(_, _, _)
KeepFrom(seq, I, i) ==
    IF i > Len(seq) THEN <<>>
    ELSE (IF i \in I THEN <<seq[i]>> ELSE <<>>) \o KeepFrom(seq, I, i + 1)

KeepAt(seq, I) == KeepFrom(seq, I, 1)

Triple(e) == <<e.from, e.to, e.kind>>
NameKind(n) == <<n.name, n.kind>>

Assembled == pc = "assembled"

FragmentNames == {allNodes[i].name : i \in 1..Len(allNodes)}

\* A fragment edge whose endpoints are both declared and differ.
ValidEdge(e) ==
    /\ e.from \in FragmentNames
    /\ e.to \in FragmentNames
    /\ e.from # e.to

(***************************************************************************)
(* C1  Edge validity: every edge of the graph filterAndDedupe returns has  *)
(* a returned node named e.from, a returned node named e.to, and           *)
(* e.from # e.to.                                                          *)
(***************************************************************************)
EdgeValidity ==
    pc \in {"assembled", "serialized", "deserialized"} =>
        \A k \in 1..Len(graph.edges) :
            LET e == graph.edges[k]
            IN /\ \E i \in 1..Len(graph.nodes) : graph.nodes[i].name = e.from
               /\ \E i \in 1..Len(graph.nodes) : graph.nodes[i].name = e.to
               /\ e.from # e.to

\* A self-reference of a declared type was given to assembly together with
\* an edge that the graph retains.
EdgeValidityWitness ==
    /\ Assembled
    /\ \E i \in 1..Len(allEdges) :
         allEdges[i].from = allEdges[i].to /\ allEdges[i].from \in FragmentNames
    /\ Len(graph.edges) >= 1

(***************************************************************************)
(* C2  Dedup invariant: the assembled graph never holds two nodes with the *)
(* same identity key (the name, hence also never the same name and kind)   *)
(* nor two edges with the same (from, to, kind).                           *)
(***************************************************************************)
DedupInvariant ==
    pc \in {"assembled", "serialized", "deserialized"} =>
        /\ \A i, j \in 1..Len(graph.nodes) :
             i # j => /\ graph.nodes[i].name # graph.nodes[j].name
                      /\ NameKind(graph.nodes[i]) # NameKind(graph.nodes[j])
        /\ \A i, j \in 1..Len(graph.edges) :
             i # j => Triple(graph.edges[i]) # Triple(graph.edges[j])

\* A type declared twice and a valid edge given twice.
DedupWitness ==
    /\ Assembled
    /\ \E i, j \in 1..Len(allNodes) : i # j /\ allNodes[i].name = allNodes[j].name
    /\ \E i, j \in 1..Len(allEdges) :
         i # j /\ allEdges[i] = allEdges[j] /\ ValidEdge(allEdges[i])
    /\ Len(graph.edges) = 1

(***************************************************************************)
(* C6  First occurrence wins: of the fragment nodes sharing a name the     *)
(* graph keeps the first, with its kind, file and line; of the retained    *)
(* edges sharing a triple it keeps the first; nodes and edges are returned *)
(* in the order of their first occurrence in the input.                    *)
(***************************************************************************)
FirstOccurrenceWins ==
    Assembled =>
        /\ graph.nodes =
             KeepAt(allNodes,
                    {i \in 1..Len(allNodes) :
                        \A j \in 1..(i - 1) : allNodes[j].name # allNodes[i].name})
        /\ graph.edges =
             KeepAt(allEdges,
                    {i \in 1..Len(allEdges) :
                        /\ ValidEdge(allEdges[i])
                        /\ \A j \in 1..(i - 1) :
                             Triple(allEdges[j]) # Triple(allEdges[i])})

\* One name declared as a class and as an interface, another type in between.
FirstOccurrenceWitness ==
    /\ Assembled
    /\ Len(allNodes) = 3
    /\ allNodes[1].name = allNodes[3].name
    /\ allNodes[1].kind # allNodes[3].kind
    /\ allNodes[2].name # allNodes[1].name
    /\ Len(graph.nodes) = 2

(***************************************************************************)
(* C7  No valid edge is lost: a fragment edge is retained if and only if   *)
(* both endpoints are names of fragment nodes and it is no self-reference; *)
(* every such edge appears exactly once per triple in the graph.           *)
(***************************************************************************)
NoValidEdgeLost ==
    Assembled =>
        /\ \A i \in 1..Len(allEdges) :
             ValidEdge(allEdges[i]) <=>
                Cardinality({k \in 1..Len(graph.edges) :
                                Triple(graph.edges[k]) = Triple(allEdges[i])}) = 1
        /\ \A k \in 1..Len(graph.edges) :
             \E i \in 1..Len(allEdges) : allEdges[i] = graph.edges[k]

\* Two valid edges between the same pair of types, of different kinds.
NoValidEdgeLostWitness ==
    /\ Assembled
    /\ Len(allEdges) = 2
    /\ allEdges[1].from = allEdges[2].from
    /\ allEdges[1].to = allEdges[2].to
    /\ allEdges[1].kind # allEdges[2].kind
    /\ ValidEdge(allEdges[1])
    /\ Len(graph.edges) = 2

(***************************************************************************)
(* C8  Node identity in assembly and in diffing.                           *)
(***************************************************************************)
\* Assembly collapses the two nodes into one.
Collapses(n, m) == Len(dedupeNodes(<<n, m>>)) = 1

\* The diff engine treats the two nodes as the same node.
SameDiffKey(n, m) == nodeKey(n) = nodeKey(m)

\* C8 as claimed: one identity rule, assembly collapses two nodes exactly
\* when their diff keys are equal.
OneIdentityRule ==
    Assembled =>
        \A i, j \in 1..Len(allNodes) :
            Collapses(allNodes[i], allNodes[j])
                <=> SameDiffKey(allNodes[i], allNodes[j])

\* C8 as amended: two rules.  Assembly collapses two nodes exactly when
\* their names are equal; the diff engine treats them as the same node
\* exactly when name and kind are both equal; so nodes with equal diff keys
\* are collapsed, and nodes of one name and different kinds are collapsed
\* although their diff keys differ.
TwoIdentityRules ==
    Assembled =>
        \A i, j \in 1..Len(allNodes) :
            LET n == allNodes[i]
                m == allNodes[j]
            IN /\ Collapses(n, m) <=> n.name = m.name
               /\ SameDiffKey(n, m) <=> (n.name = m.name /\ n.kind = m.kind)
               /\ SameDiffKey(n, m) => Collapses(n, m)

\* A class and an interface of the same name were assembled into one node.
TwoIdentityRulesWitness ==
    /\ Assembled
    /\ \E i, j \in 1..Len(allNodes) :
         /\ allNodes[i].name = allNodes[j].name
         /\ allNodes[i].kind # allNodes[j].kind
    /\ Len(graph.nodes) = 1

(***************************************************************************)
(* C10  Round trip: deserializeGraph(serializeGraph(g)) equals g for every *)
(* graph a scan returns, with or without a commitSha.                      *)
(***************************************************************************)
RoundTrip == pc = "deserialized" => restored = graph

(***************************************************************************)
(* Properties of diffGraphs, under SpecDiff.                               *)
(***************************************************************************)
Diffed == pc \in {"diffed", "rediffed"}

NodeKeysOf(nodes) == {NameKind(nodes[i]) : i \in 1..Len(nodes)}
EdgeKeysOf(edges) == {Triple(edges[i]) : i \in 1..Len(edges)}

(***************************************************************************)
(* C3  diffGraphs is a key-based set difference: addedNodes are exactly    *)
(* the after-nodes whose (name, kind) is absent from before, removedNodes  *)
(* the before-nodes whose key is absent from after, likewise the edges     *)
(* with (from, to, kind); an edge whose kind changed is one removed edge   *)
(* of the old kind and one added edge of the new kind.                     *)
(***************************************************************************)
DiffIsSetDifference ==
    Diffed =>
        /\ diff.addedNodes =
             SelectSeq(after.nodes,
                       LAMBDA n : NameKind(n) \notin NodeKeysOf(before.nodes))
        /\ diff.removedNodes =
             SelectSeq(before.nodes,
                       LAMBDA n : NameKind(n) \notin NodeKeysOf(after.nodes))
        /\ diff.addedEdges =
             SelectSeq(after.edges,
                       LAMBDA e : Triple(e) \notin EdgeKeysOf(before.edges))
        /\ diff.removedEdges =
             SelectSeq(before.edges,
                       LAMBDA e : Triple(e) \notin EdgeKeysOf(after.edges))
        /\ \A i \in 1..Len(before.edges), j \in 1..Len(after.edges) :
             LET old == before.edges[i]
                 new == after.edges[j]
             IN (/\ old.from = new.from /\ old.to = new.to /\ old.kind # new.kind
                 /\ Triple(old) \notin EdgeKeysOf(after.edges)
                 /\ Triple(new) \notin EdgeKeysOf(before.edges))
                => /\ Cardinality({k \in 1..Len(diff.removedEdges) :
                                      diff.removedEdges[k] = old}) = 1
                   /\ Cardinality({k \in 1..Len(diff.addedEdges) :
                                      diff.addedEdges[k] = new}) = 1

\* The kind of the edge between one pair of types changed between the snapshots.
DiffIsSetDifferenceWitness ==
    /\ Diffed
    /\ \E i \in 1..Len(before.edges), j \in 1..Len(after.edges) :
         /\ before.edges[i].from = after.edges[j].from
         /\ before.edges[i].to = after.edges[j].to
         /\ before.edges[i].kind # after.edges[j].kind
    /\ Len(diff.addedEdges) = 1
    /\ Len(diff.removedEdges) = 1

(***************************************************************************)
(* C4  Diff symmetry: diffGraphs(A, B).addedNodes = diffGraphs(B, A)       *)
(* .removedNodes, diffGraphs(A, B).addedEdges = diffGraphs(B, A)           *)
(* .removedEdges, and dually for removed and added.                        *)
(***************************************************************************)
DiffSymmetry ==
    pc = "rediffed" =>
        /\ diff.addedNodes = rdiff.removedNodes
        /\ diff.addedEdges = rdiff.removedEdges
        /\ diff.removedNodes = rdiff.addedNodes
        /\ diff.removedEdges = rdiff.addedEdges

\* Both directions computed, with nodes and edges on both sides of the diff.
DiffSymmetryWitness ==
    /\ pc = "rediffed"
    /\ Len(diff.addedNodes) >= 1
    /\ Len(diff.addedEdges) >= 1
    /\ Len(rdiff.addedNodes) >= 1
    /\ Len(rdiff.addedEdges) >= 1

(***************************************************************************)
(* C5  Diff identity: diffGraphs(A, A) has no added or removed node or     *)
(* edge.                                                                   *)
(***************************************************************************)
DiffIdentity == (Diffed /\ before = after) => isDiffEmpty(diff)

\* A graph with nodes and an edge was compared with itself.
DiffIdentityWitness ==
    /\ Diffed
    /\ before = after
    /\ Len(before.nodes) = 2
    /\ Len(before.edges) = 1

(***************************************************************************)
(* C9  The collections of a GraphDiff are disjoint: no (name, kind) is in  *)
(* both addedNodes and removedNodes, no (from, to, kind) in both           *)
(* addedEdges and removedEdges.                                            *)
(***************************************************************************)
DiffDisjoint ==
    Diffed =>
        /\ NodeKeysOf(diff.addedNodes) \cap NodeKeysOf(diff.removedNodes) = {}
        /\ EdgeKeysOf(diff.addedEdges) \cap EdgeKeysOf(diff.removedEdges) = {}

\* Nodes and edges were both added and removed between the snapshots.
DiffDisjointWitness ==
    /\ Diffed
    /\ Len(diff.addedNodes) >= 1
    /\ Len(diff.removedNodes) >= 1
    /\ Len(diff.addedEdges) >= 1
    /\ Len(diff.removedEdges) >= 1

(***************************************************************************)
(* C12  When the directory is not inside a git repository, or the ref     *)
(* cannot be listed, scanFromGit returns a graph with no nodes and no      *)
(* edges instead of raising, and diffGraphs(thatGraph, current) reports    *)
(* every node and every edge of current as added and nothing as removed.   *)
(***************************************************************************)
MissingRevisionAllAdded ==
    RevisionMissing(gitEnv) =>
        /\ pc # "failed"
        /\ before.nodes = <<>>
        /\ before.edges = <<>>
        /\ Diffed =>
              /\ diff.addedNodes = after.nodes
              /\ diff.addedEdges = after.edges
              /\ diff.removedNodes = <<>>
              /\ diff.removedEdges = <<>>

\* The ref did not exist and the current graph has two nodes and an edge.
MissingRevisionWitness ==
    /\ gitEnv.inRepo
    /\ ~gitEnv.refExists
    /\ Diffed
    /\ Len(after.nodes) = 2
    /\ Len(after.edges) = 1
    /\ Len(diff.addedNodes) = 2

\* The scan loop has ended and the scan has returned its graph.
ScanDone == pc = "done"

\* Reading or parsing the file throws: the file itself, or the grammar of
\* its language.
Failing(f) == f.bad \/ getParserForFile(f.path) \in unavailable

PathsOf(seq) == {seq[i].path : i \in 1..Len(seq)}

(***************************************************************************)
(* C11  In scanDirectory and in scanFromGit a file that cannot be read or  *)
(* whose extraction throws is skipped and the scan returns: the failed     *)
(* file contributes no node and no edge, and what the other files          *)
(* contribute is what a scan without the failed files collects.            *)
(***************************************************************************)
PerFileIsolation ==
    /\ pc # "aborted"
    /\ ScanDone =>
         LET others == SelectSeq(disk, LAMBDA f : ~Failing(f))
             failed == PathsOf(SelectSeq(disk, Failing))
             without == scanAll(mode, languages, unavailable, others)
         IN  /\ graph # NoGraph
             /\ allNodes = without.nodes
             /\ allEdges = without.edges
             /\ \A i \in 1..Len(allNodes) : allNodes[i].file \notin failed
             /\ \A i \in 1..Len(graph.nodes) : graph.nodes[i].file \notin failed

\* A scan returned after one file threw and another file gave a node.
PerFileIsolationWitness ==
    /\ ScanDone
    /\ Len(dispatched) = 2
    /\ \E i \in 1..Len(files) : files[i].bad
    /\ Len(graph.nodes) = 1

(***************************************************************************)
(* C13  Under any interleaving of concurrent first calls that reach        *)
(* initWasm, WasmParser.init() is invoked at most once in the process and  *)
(* no caller uses a runtime that is not initialized.                       *)
(***************************************************************************)
InitWasmOnce ==
    /\ counts.initCalls <= 1
    /\ ~counts.uninitialized

(***************************************************************************)
(* C14  Under concurrent first calls the import of the native runtime is   *)
(* attempted at most once, the cached backend is written once and never    *)
(* changes, and every caller observes the same backend.                    *)
(***************************************************************************)
DetectBackendOnce ==
    /\ counts.nativeAttempts <= 1
    /\ counts.backendWrites <= 1
    /\ \A t \in TaskIds :
         tasks[t].backend \in {Null, loader.detectedBackend}

(***************************************************************************)
(* C15  loadLanguage imports a native grammar only when the detected       *)
(* backend is native; when that import fails the call returns the WASM     *)
(* grammar with backend "wasm"; the failure leaves the detected backend    *)
(* of the process as it was, so a grammar whose native package can be      *)
(* imported is still loaded natively.                                      *)
(***************************************************************************)
FallbackIsPerGrammar ==
    /\ loader.detectedBackend \in
           {Null, IF installed.native THEN "native" ELSE "wasm"}
    /\ \A t \in TaskIds :
         /\ tasks[t].pc = "load_native" => loader.detectedBackend = "native"
         /\ tasks[t].pc = "got_language" =>
               /\ tasks[t].result \in {"native", "wasm"}
               /\ tasks[t].result = "native" <=>
                     /\ installed.native
                     /\ tasks[t].lang \in installed.nativeGrammars
               /\ tasks[t].result = "wasm" =>
                     tasks[t].lang \in installed.wasmGrammars

\* One scan got the Java grammar from WASM after its native import failed,
\* and on its next file gets the Swift grammar natively.
FallbackIsPerGrammarWitness ==
    /\ loader.detectedBackend = "native"
    /\ modules["java"].lang = "wasm"
    /\ modules["java"].parserInstance = "wasm"
    /\ tasks["scanFromGit"] = IdleTask(0)
    /\ tasks["scanDirectory"].calls = 1
    /\ tasks["scanDirectory"].pc = "got_language"
    /\ tasks["scanDirectory"].lang = "swift"
    /\ tasks["scanDirectory"].result = "native"

(***************************************************************************)
(* C16  Across a whole run, the diff and hook commands running both scans  *)
(* together included, each language module creates its parser at most      *)
(* once and loads its grammar at most once.                                *)
(***************************************************************************)
ParserCreatedOnce ==
    \A l \in Langs :
        /\ counts.parsers[l] <= 1
        /\ counts.grammars[l] <= 1

\* The orders in which a listing of n files can be enumerated.
Orders(n) == {p \in [1..n -> 1..n] : \A i, j \in 1..n : p[i] = p[j] => i = j}

Reordered(listing, p) == [i \in 1..Len(listing) |-> listing[p[i]]]

\* The graph of a second scan of the same files, enumerated in order p.
Rescan(p) ==
    LET acc == scanAll(mode, languages, unavailable, Reordered(disk, p))
    IN  filterAndDedupe(acc.nodes, acc.edges, Undefined, Undefined, "")

SetOf(seq) == {seq[i] : i \in 1..Len(seq)}
NamesOf(seq) == {seq[i].name : i \in 1..Len(seq)}

\* The files of a listing whose declarations reach the accumulator.
Contributing(listing) ==
    SelectSeq(enumerate(mode, languages, listing),
              LAMBDA f : getParserForFile(f.path) # NoParser /\ ~Failing(f))

(***************************************************************************)
(* C17 as stated: scanning the same unchanged file set twice yields the    *)
(* same nodes (name, kind, file, line) and the same edges, whatever order  *)
(* the files are enumerated in on each scan.                               *)
(***************************************************************************)
SameGraphAnyOrder ==
    ScanDone =>
        \A p \in Orders(Len(disk)) :
            /\ SetOf(Rescan(p).nodes) = SetOf(graph.nodes)
            /\ SetOf(Rescan(p).edges) = SetOf(graph.edges)

(***************************************************************************)
(* C17  Scanning the same unchanged file set twice yields the same node    *)
(* names and the same edges whatever order the files are enumerated in;    *)
(* the kind, file and line of a node are those of the first enumerated     *)
(* declaration of its name, so they are the same on both scans when the    *)
(* name is declared once or the enumeration order is the same.             *)
(***************************************************************************)
SameNamesAnyOrder ==
    ScanDone =>
        \A p \in Orders(Len(disk)) :
            LET again == Rescan(p)
                decls == Contributing(Reordered(disk, p))
            IN  /\ NamesOf(again.nodes) = NamesOf(graph.nodes)
                /\ SetOf(again.edges) = SetOf(graph.edges)
                /\ \A i \in 1..Len(again.nodes) :
                      \E k \in 1..Len(decls) :
                          /\ decls[k].name = again.nodes[i].name
                          /\ decls[k].path = again.nodes[i].file
                          /\ \A j \in 1..(k - 1) : decls[j].name # decls[k].name
                /\ (\A i \in 1..Len(disk) : p[i] = i) =>
                      /\ again.nodes = graph.nodes
                      /\ again.edges = graph.edges

\* Two files of different languages declare the same name and both were
\* scanned: the graph has one node for them.
SameNamesWitness ==
    /\ ScanDone
    /\ Len(files) = 2
    /\ Len(allNodes) = 2
    /\ allNodes[1].name = allNodes[2].name
    /\ allNodes[1].kind # allNodes[2].kind
    /\ Len(graph.nodes) = 1

\* The language id (ts, java, swift, go) of the language a file is written
\* in, by its extension.
LanguageId(path) ==
    CASE endsWith(path, <<".", "t", "s">>) -> <<"t", "s">>
      [] endsWith(path, <<".", "t", "s", "x">>) -> <<"t", "s">>
      [] endsWith(path, <<".", "j", "a", "v", "a">>) -> <<"j", "a", "v", "a">>
      [] endsWith(path, <<".", "s", "w", "i", "f", "t">>) -> <<"s", "w", "i", "f", "t">>
      [] endsWith(path, <<".", "g", "o">>) -> <<"g", "o">>

(***************************************************************************)
(* C18  scanDirectory with a language allow-list returns only nodes        *)
(* declared in files of the listed languages: the list selects the         *)
(* extensions before the files are matched, so a file of an unlisted       *)
(* language is never enumerated and never handed to an extractor.          *)
(***************************************************************************)
LanguageFilter ==
    (mode = "directory" /\ languages.given) =>
        LET listed == SetOf(languages.ids)
        IN  /\ \A i \in 1..Len(files) : LanguageId(files[i].path) \in listed
            /\ \A i \in 1..Len(dispatched) : LanguageId(dispatched[i]) \in listed
            /\ \A i \in 1..Len(allNodes) : LanguageId(allNodes[i].file) \in listed
            /\ ScanDone =>
                  \A i \in 1..Len(graph.nodes) :
                      LanguageId(graph.nodes[i].file) \in listed

\* A directory with a TypeScript and a Java file was scanned for ts only:
\* one file was handed to an extractor and the graph has its node.
LanguageFilterWitness ==
    /\ ScanDone
    /\ mode = "directory"
    /\ languages.given
    /\ languages.ids = << <<"t", "s">> >>
    /\ Len(disk) = 2
    /\ \E i \in 1..2 : disk[i].path = <<"c", ".", "j", "a", "v", "a">> /\ ~disk[i].bad
    /\ Len(dispatched) = 1
    /\ Len(graph.nodes) = 1

(***************************************************************************)
(* C19  A .go file of the scanned directory or revision is dispatched by   *)
(* the extension table to the Go extractor, so the types it declares       *)
(* appear as nodes.                                                        *)
(***************************************************************************)
GoDispatched ==
    ScanDone =>
        \A i \in 1..Len(disk) :
            (/\ some(GO_EXTENSIONS, LAMBDA ext : endsWith(disk[i].path, ext))
             /\ ~disk[i].bad
             /\ languages.given => <<"g", "o">> \in SetOf(languages.ids))
            => /\ disk[i].path \in SetOf(dispatched)
               /\ \E k \in 1..Len(allNodes) : allNodes[k].file = disk[i].path

\* The reports of a scan about the files an extractor was to parse.
ReportsAbout(parser) ==
    SelectSeq(warnings, LAMBDA path : getParserForFile(path) = parser)

(***************************************************************************)
(* C20  When neither backend can supply the grammar of a language, the     *)
(* failure is reported exactly once per scan for that language, however    *)
(* many files of the language the scan meets, and the files of the other   *)
(* languages are still scanned.                                            *)
(***************************************************************************)
GrammarFailureReportedOnce ==
    ScanDone =>
        /\ \A parser \in unavailable :
              (\E i \in 1..Len(files) : getParserForFile(files[i].path) = parser)
              => Len(ReportsAbout(parser)) = 1
        /\ \A i \in 1..Len(files) :
              (getParserForFile(files[i].path) # NoParser /\ ~Failing(files[i]))
              => \E k \in 1..Len(allNodes) : allNodes[k].file = files[i].path

\* The document is the text of a DependencyGraph: an object with the arrays
\* nodes and edges and the string scannedAt.
IsGraphDocument(doc) ==
    /\ doc.t = "object"
    /\ HasMember(doc, "nodes") /\ Member(doc, "nodes").t = "array"
    /\ HasMember(doc, "edges") /\ Member(doc, "edges").t = "array"
    /\ HasMember(doc, "scannedAt") /\ Member(doc, "scannedAt").t = "string"

(***************************************************************************)
(* C21  deserializeGraph fails with an error on every corrupt graph        *)
(* document, text that is not JSON and JSON whose shape is not a           *)
(* DependencyGraph alike, rather than returning a value.                   *)
(***************************************************************************)
MalformedGraphRejected ==
    (pc = "loaded" /\ ~IsGraphDocument(json)) => outcome.threw

TriplesOf(seq) == {Triple(seq[i]) : i \in 1..Len(seq)}

(***************************************************************************)
(* C27  The node names and the edge triples (from, to, kind) of the        *)
(* assembled graph do not depend on the order of the fragments: for every  *)
(* permutation of the input nodes and edges filterAndDedupe returns the    *)
(* same name set and the same edge-triple set; only the node kept for a    *)
(* name that occurs more than once can change.                             *)
(***************************************************************************)
OrderIndependent ==
    pc = "reassembled" =>
        /\ NamesOf(restored.nodes) = NamesOf(graph.nodes)
        /\ TriplesOf(restored.edges) = TriplesOf(graph.edges)
        /\ SetOf(restored.nodes) \subseteq SetOf(allNodes)
        /\ \A i \in 1..Len(graph.nodes) :
              Cardinality({k \in 1..Len(allNodes) :
                              allNodes[k].name = graph.nodes[i].name}) = 1
              => graph.nodes[i] \in SetOf(restored.nodes)

\* Two declarations of one name were assembled in both orders and a
\* different one was kept each time.
OrderIndependentWitness ==
    /\ pc = "reassembled"
    /\ Len(allNodes) = 2
    /\ allNodes[1].name = allNodes[2].name
    /\ Len(graph.nodes) = 1
    /\ Len(restored.nodes) = 1
    /\ graph.nodes[1].kind # restored.nodes[1].kind

(***************************************************************************)
(* C28  If a node name of before is the name of no node of after, every    *)
(* edge of before incident to that name, as from or as to, is in           *)
(* removedEdges; and every edge of after incident to a name absent from    *)
(* before is in addedEdges.                                                *)
(***************************************************************************)
VanishedNodeEdges ==
    Diffed =>
        /\ \A n \in NamesOf(before.nodes) \ NamesOf(after.nodes) :
              \A i \in 1..Len(before.edges) :
                  (before.edges[i].from = n \/ before.edges[i].to = n)
                  => before.edges[i] \in SetOf(diff.removedEdges)
        /\ \A n \in NamesOf(after.nodes) \ NamesOf(before.nodes) :
              \A i \in 1..Len(after.edges) :
                  (after.edges[i].from = n \/ after.edges[i].to = n)
                  => after.edges[i] \in SetOf(diff.addedEdges)

\* A type with an edge disappeared between the snapshots while the other
\* end of the edge stayed.
VanishedNodeEdgesWitness ==
    /\ Diffed
    /\ Len(before.nodes) = 2
    /\ Len(after.nodes) = 1
    /\ NamesOf(after.nodes) \subseteq NamesOf(before.nodes)
    /\ Len(before.edges) = 1
    /\ Len(diff.removedEdges) = 1

(***************************************************************************)
(* C29  diffGraphs compares nodes by (name, kind) only: a node in both     *)
(* graphs with the same name and kind but another file or line is in       *)
(* neither addedNodes nor removedNodes; a node whose kind changed under    *)
(* the same name is once in removedNodes, with its old kind, and once in   *)
(* addedNodes, with its new kind.                                          *)
(***************************************************************************)
NodesComparedByNameKind ==
    Diffed =>
        \A i \in 1..Len(before.nodes), j \in 1..Len(after.nodes) :
            LET old == before.nodes[i]
                new == after.nodes[j]
                Named(seq) == SelectSeq(seq, LAMBDA x : x.name = old.name)
            IN  old.name = new.name =>
                    IF old.kind = new.kind
                    THEN /\ Named(diff.removedNodes) = <<>>
                         /\ Named(diff.addedNodes) = <<>>
                    ELSE /\ Named(diff.removedNodes) = <<old>>
                         /\ Named(diff.addedNodes) = <<new>>

\* Between the snapshots one type moved to another line and another type
\* changed its kind.
NodesComparedWitness ==
    /\ Diffed
    /\ \E i \in 1..Len(before.nodes), j \in 1..Len(after.nodes) :
          /\ before.nodes[i].name = after.nodes[j].name
          /\ before.nodes[i].kind = after.nodes[j].kind
          /\ before.nodes[i].line # after.nodes[j].line
    /\ \E i \in 1..Len(before.nodes), j \in 1..Len(after.nodes) :
          /\ before.nodes[i].name = after.nodes[j].name
          /\ before.nodes[i].kind # after.nodes[j].kind
    /\ Len(diff.addedNodes) = 1
    /\ Len(diff.removedNodes) = 1

(***************************************************************************)
(* C26  Every TypeScript file is parsed with the grammar of its extension, *)
(* .tsx with the TSX grammar and any other with the TypeScript grammar,    *)
(* under any interleaving of the concurrent parseTypeScript calls that     *)
(* share the parser of the module.                                         *)
(***************************************************************************)
GrammarMatchesExtension ==
    \A t \in TaskIds : tasks[t].used \in {Null, tasks[t].wanted}

(***************************************************************************)
(* Helpers of the properties of the extractors.                            *)
(***************************************************************************)
Extracted(language) == pc = "extracted" /\ source.language = language

\* The nodes of a tree.
RECURSIVE Descendants(_)
Descendants(node) ==
    {node} \cup UNION {Descendants(node.children[i]) : i \in 1..Len(node.children)}

\* The types of the model that a type expression names.
UserTypesNamedIn(type) ==
    {Text(n) : n \in {d \in Descendants(type) : d.type = "type_identifier"}}
    \cap UserTypes

Targets == {allEdges[i].to : i \in 1..Len(allEdges)}

\* The types of the named fields, of the parameters and of the results of
\* a Go file.
GoTypeSites(root) ==
    {childForFieldName(d, "type") :
         d \in {f \in Descendants(root) :
                   /\ f.type = "field_declaration"
                   /\ childForFieldName(f, "name") # NoChild}}
    \cup UNION {{childForFieldName(p, "type") :
                    p \in {q \in Descendants(l) : q.type = "parameter_declaration"}} :
                l \in {m \in Descendants(root) : m.field = "parameters"}}
    \cup {r \in Descendants(root) : r.field = "result"}

GoComposite == {"pointer_type", "slice_type", "array_type", "map_type"}

(***************************************************************************)
(* C30  For a Go struct field, method parameter or method result of a      *)
(* composite type (pointer, slice, array, map) the Go extractor emits an   *)
(* edge to every user-defined type named inside the type: for map[K]V with *)
(* user-defined K and V, an edge to K and an edge to V.                    *)
(***************************************************************************)
GoCompositeTypesCovered ==
    Extracted("go") =>
        \A t \in GoTypeSites(source.tree) :
            t.type \in GoComposite => UserTypesNamedIn(t) \subseteq Targets

\* The built-in types of each language: the list of the Go extractor, and
\* for the languages whose extractor has no list, the primitive types of
\* the language.
BuiltinsOf(language) ==
    IF language = "go" THEN BUILTIN_TYPES
    ELSE IF language = "swift" THEN {"Int", "String", "Bool", "Double"}
    ELSE IF language = "java" THEN {"int", "long", "boolean", "double"}
    ELSE {"string", "number", "boolean"}

(***************************************************************************)
(* C24  Built-in types never produce edges: no fragment of any extractor   *)
(* has an edge whose target is a built-in type of the language of the      *)
(* file.                                                                   *)
(***************************************************************************)
NoEdgeToBuiltin ==
    pc = "extracted" => Targets \cap BuiltinsOf(source.language) = {}

\* The texts of the leaves of a tree: the simple names that the file holds.
LeafTexts(root) == {Text(d) : d \in {n \in Descendants(root) : n.children = <<>>}}

\* The qualified type references of a tree: pkg.Type of Go and Java,
\* Outer.Inner of TypeScript and of Swift.
Qualified(root) ==
    {q \in Descendants(root) :
         \/ q.type \in {"qualified_type", "scoped_type_identifier",
                        "nested_type_identifier"}
         \/ /\ q.type = "user_type"
            /\ \E i \in 1..Len(q.children) : Text(q.children[i]) = "."}

\* The innermost identifier of a qualified reference: its last one.
Innermost(q) ==
    LET ids == SelectSeq(q.children, LAMBDA c : c.type = "type_identifier")
    IN  Text(ids[Len(ids)])

(***************************************************************************)
(* C23  Qualification stripping: in every extractor a qualified type       *)
(* reference (pkg.Type, Outer.Inner) gives an edge to its innermost simple *)
(* identifier, and no edge has a dotted name as its target.                *)
(***************************************************************************)
QualificationStripped ==
    pc = "extracted" =>
        /\ Targets \subseteq LeafTexts(source.tree)
        /\ \A q \in Qualified(source.tree) : Innermost(q) \in Targets

\* The node types with which each grammar declares a named type.
DeclarationTypes(language) ==
    IF language = "java"
    THEN {"class_declaration", "interface_declaration", "enum_declaration"}
    ELSE IF language = "typescript"
    THEN {"class_declaration", "abstract_class_declaration",
          "interface_declaration", "type_alias_declaration", "enum_declaration"}
    ELSE IF language = "swift"
    THEN {"class_declaration", "protocol_declaration", "enum_declaration"}
    ELSE {"type_spec", "type_alias"}

\* The named type declarations of a tree: in Go a type_spec declares a
\* struct or an interface and a type_alias declares an alias.
Declarations(language, root) ==
    {d \in Descendants(root) :
         /\ d.type \in DeclarationTypes(language)
         /\ d.type = "type_spec" =>
                childForFieldName(d, "type").type \in {"struct_type",
                                                       "interface_type"}}

DeclaredAt == {<<Text(childForFieldName(d, "name")), d.row + 1>> :
                   d \in Declarations(source.language, source.tree)}

EmittedAt == {<<allNodes[i].name, allNodes[i].line>> : i \in 1..Len(allNodes)}

(***************************************************************************)
(* C22  Each extractor emits exactly one node for every named type         *)
(* declaration (class or struct, interface or protocol, enum, type alias)  *)
(* of the tree of the file, wherever the declaration is in the tree, and   *)
(* no node for anything else.                                              *)
(***************************************************************************)
OneNodePerDeclaration ==
    pc = "extracted" =>
        /\ EmittedAt = DeclaredAt
        /\ Len(allNodes) = Cardinality(DeclaredAt)

\* The extensions of a Swift tree and what each one adds.
Extensions(root) == {x \in Descendants(root) : x.type = "extension_declaration"}

Extended(x) == Text(childForFieldName(x, "name"))

Conformed(x) ==
    {Text(childForFieldName(c, "inherits_from")) :
         c \in {d \in Descendants(x) : d.type = "inheritance_specifier"}}

\* How many times the fragment holds an edge.
Occurrences(edge) == Cardinality({i \in 1..Len(allEdges) : allEdges[i] = edge})

====
